---- MODULE Spec2Model ----
(***************************************************************************)
(* Model of the S3 backup retention manager (src/index.mjs).               *)
(*                                                                         *)
(* The state machines of this module share its variables:                  *)
(*   Spec       - applyRetentionPolicy evaluated step by step (one group   *)
(*                of one pass per step) on an inventory and a policy drawn *)
(*                in Init;                                                 *)
(*   SpecTwice, SpecParts, SpecFixed - the same, called a second time: on  *)
(*                the same objects, on the parts of a group in another     *)
(*                order, on what the first call retained;                  *)
(*   SpecParse  - the same on one key of any shape;                        *)
(*   SpecRun, SpecMixed, SpecPair - processBackups over the configured     *)
(*                buckets: paged listing, evaluation, gated batched        *)
(*                deletion, aggregation;                                   *)
(*   SpecDelete - deleteS3Objects on its own;                              *)
(*   SpecPrune  - prune: processBackups and the table built from it;       *)
(*   SpecMain, SpecCron - main and the cron callbacks.                     *)
(*                                                                         *)
(* An object key is modelled by its syntax: a sequence of path components  *)
(* (the pieces between '/'), each a sequence of segments (the pieces       *)
(* between '-'), each a sequence of atoms. Atoms are words, '_', '.', and  *)
(* digit runs [digits |-> width, val |-> number].                          *)
(***************************************************************************)
EXTENDS Integers, Sequences, FiniteSets, Bags, TLC

(***************************************************************************)
(* Bounds of the model.                                                    *)
(***************************************************************************)
MaxInv == 4
MaxCapSum == 2
MaxRunInv == 2
MaxRunCapSum == 1
PageSize == 1
MaxFullChunks == 2
MaxDepth == 3
MaxConfigs == 2
MaxTicks == 2

(***************************************************************************)
(* Generic helpers.                                                        *)
(***************************************************************************)
Range(s) == {s[i] : i \in 1..Len(s)}

Min(a, b) == IF a < b THEN a ELSE b

RECURSIVE Reverse(_)
Reverse(s) == IF s = <<>> THEN <<>> ELSE Append(Reverse(Tail(s)), Head(s))

(***************************************************************************)
(* Key syntax.                                                             *)
(***************************************************************************)
Digits(w, v) == [digits |-> w, val |-> v]

IsDigits(a, w) == a \in [digits : {w}, val : Nat]

\* "<dir0>-<dir1>": a directory component such as backups-full
DirComp(w0, w1) == << <<w0>>, <<w1>> >>

\* "<word>": a directory component without a hyphen
PlainComp(w0) == << <<w0>> >>

\* "<name>_<yyyymmdd>_<hhmmss>-<type>.<ext>" (part = 0) or
\* "<name>_<yyyymmdd>_<hhmmss>-<type>-<part>.<ext>"
FileComp(name, ymd, hms, type, part, ext) ==
    IF part = 0
    THEN << <<name, "_", Digits(8, ymd), "_", Digits(6, hms)>>,
            <<type, ".", ext>> >>
    ELSE << <<name, "_", Digits(8, ymd), "_", Digits(6, hms)>>,
            <<type>>,
            <<Digits(1, part), ".", ext>> >>

\* "<name>_<yyyy>-bad.<ext>": a file name outside the naming grammar
BadComp(name, yyyy, ext) == << <<name, "_", Digits(4, yyyy)>>, <<"bad", ".", ext>> >>

(***************************************************************************)
(* String operations of the parser, on the key syntax.                     *)
(***************************************************************************)
\* String.prototype.toLowerCase on one atom
LowerAtom(a) ==
    CASE a = "Full" -> "full"
      [] a = "FULL" -> "full"
      [] a = "Diff" -> "diff"
      [] OTHER -> a

LowerSeg(seg) == [i \in 1..Len(seg) |-> LowerAtom(seg[i])]

\* \w: a word or a digit run or '_' (not '.')
IsWordAtom(a) == a # "."

\* the empty string as a path component: "".split("-") = [""]
EmptyComp == << <<>> >>

\* segment i of comp ends with _<8 digits>_<6 digits>, after a non-empty (.+)
StemAt(comp, i) ==
    LET seg == comp[i]
        n == Len(seg)
    IN /\ n >= 4
       /\ seg[n - 3] = "_"
       /\ IsDigits(seg[n - 2], 8)
       /\ seg[n - 1] = "_"
       /\ IsDigits(seg[n], 6)
       /\ (n >= 5 \/ i > 1)

\* index of the first '.' of a segment, 0 if none
FirstDot(seg) ==
    LET S == {j \in 1..Len(seg) : seg[j] = "."}
    IN IF S = {} THEN 0 ELSE CHOOSE j \in S : \A k \in S : j <= k

\* segments i+1.. match -(\w+)(?:-(\d+))?\. with no part number
TailNoPart(comp, i) ==
    /\ Len(comp) >= i + 1
    /\ FirstDot(comp[i + 1]) >= 2
    /\ \A j \in 1..(FirstDot(comp[i + 1]) - 1) : IsWordAtom(comp[i + 1][j])

\* segments i+1.. match -(\w+)(?:-(\d+))?\. with a part number
TailWithPart(comp, i) ==
    /\ Len(comp) >= i + 2
    /\ Len(comp[i + 1]) >= 1
    /\ FirstDot(comp[i + 1]) = 0
    /\ Len(comp[i + 2]) >= 2
    /\ comp[i + 2][1] \in [digits : Nat, val : Nat]
    /\ comp[i + 2][2] = "."

MatchAt(comp, i) == StemAt(comp, i) /\ (TailNoPart(comp, i) \/ TailWithPart(comp, i))

NoMatch == [matched |-> FALSE]

\* the groups of a match whose (.+) ends in segment i
MatchGroups(comp, i, seg, n) ==
    [matched |-> TRUE,
     m1 |-> <<SubSeq(comp, 1, i - 1), SubSeq(seg, 1, n - 4)>>,
     m2 |-> seg[n - 2].val,
     m3 |-> seg[n].val,
     m5 |-> IF TailNoPart(comp, i) THEN -1 ELSE comp[i + 2][1].val]

LastOf(I) == CHOOSE j \in I : \A k \in I : k <= j

MatchIn(comp, I) ==
    IF I = {} THEN NoMatch
    ELSE MatchGroups(comp, LastOf(I), comp[LastOf(I)], Len(comp[LastOf(I)]))

\* filename.match(/(.+)_(\d{8})_(\d{6})-(\w+)(?:-(\d+))?\..*$/): the greedy (.+)
\* takes the last place where the rest of the pattern matches
Match(comp) == MatchIn(comp, {i \in 1..Len(comp) : MatchAt(comp, i)})

(***************************************************************************)
(* dayjs: parsing of the 14-digit string and the Date it builds.           *)
(***************************************************************************)
\* day of the 400-year era, from the year of the era and the day of the year
DayOfEra(yoe, doy) == yoe * 365 + (yoe \div 4) - (yoe \div 100) + doy

\* day of the year counted from 1 March, for month index mp (0 = March)
DayOfYear(mp, d) == ((153 * mp + 2) \div 5) + d - 1

DaysOfShifted(yy, mp, d) ==
    (yy \div 400) * 146097 + DayOfEra(yy - (yy \div 400) * 400, DayOfYear(mp, d)) - 719468

\* days from 1970-01-01 to the civil date y-m-d, m in 1..12, any d
DaysFromCivil(y, m, d) ==
    DaysOfShifted(IF m <= 2 THEN y - 1 ELSE y, IF m > 2 THEN m - 3 ELSE m + 9, d)

YearOfEra(doe) ==
    (doe - (doe \div 1460) + (doe \div 36524) - (doe \div 146096)) \div 365

CivilOfMonth(y, mp, doy) ==
    [year |-> y + (IF mp < 10 THEN 0 ELSE 1),
     month |-> IF mp < 10 THEN mp + 3 ELSE mp - 9,
     day |-> doy - ((153 * mp + 2) \div 5) + 1]

CivilOfDay(y, doy) == CivilOfMonth(y, (5 * doy + 2) \div 153, doy)

CivilOfYear(era, doe, yoe) ==
    CivilOfDay(yoe + era * 400, doe - (365 * yoe + (yoe \div 4) - (yoe \div 100)))

CivilOfEra(era, doe) == CivilOfYear(era, doe, YearOfEra(doe))

CivilOfShifted(z) == CivilOfEra(z \div 146097, z - (z \div 146097) * 146097)

\* the civil date of a day number
CivilFromDays(z0) == CivilOfShifted(z0 + 719468)

\* a two-digit year is taken in the 1900s
FullYear(y) == IF y >= 0 /\ y <= 99 THEN 1900 + y ELSE y

\* new Date(y, mIdx, d, h, mi, s): out-of-range fields carry over; seconds since
\* the epoch (the zone offset is taken as 0)
DateOf(y, mIdx, d, h, mi, s) ==
    DaysFromCivil(FullYear(y) + (mIdx \div 12), (mIdx % 12) + 1, d) * 86400
        + h * 3600 + mi * 60 + s

\* dayjs(dateTimeStr, 'YYYYMMDDHHMMSS') without the customParseFormat plugin:
\* the format is ignored and REGEX_PARSE cuts the 14 digits 4-2-2-2-2-2
DayjsParse(ymd, hms) ==
    DateOf(ymd \div 10000, ((ymd \div 100) % 100) - 1, ymd % 100,
           hms \div 10000, (hms \div 100) % 100, hms % 100)

\* Dayjs.isValid: the Date is not 'Invalid Date'
IsValid(unix) == unix \in Int

DayjsYear(unix) == CivilFromDays(unix \div 86400).year

\* dayjs month(), 0-based
DayjsMonth(unix) == CivilFromDays(unix \div 86400).month - 1

\* one piece of a dayjs format template: a token of the core formatter is
\* replaced, [text] is unescaped, anything else is copied
FormatPiece(unix, piece) ==
    CASE piece = "YYYY" -> DayjsYear(unix)
      [] piece = "MM" -> DayjsMonth(unix) + 1
      [] piece = "[W]" -> "W"
      [] OTHER -> piece

DayjsFormat(unix, template) == [i \in 1..Len(template) |-> FormatPiece(unix, template[i])]

(***************************************************************************)
(* class BackupObject.                                                     *)
(***************************************************************************)
Thrown == [thrown |-> TRUE]

\* parts[1] || parts[0]
Filename(key) ==
    IF Len(key) >= 2 /\ key[2] # EmptyComp THEN key[2] ELSE key[1]

\* the fields of a descriptor. The week field (datetime.week()) is read nowhere and
\* is left out.
Descriptor(key, bucketName, matches, datetime, type) ==
    [thrown |-> FALSE,
     key |-> key,
     bucketName |-> bucketName,
     objectName |-> matches.m1,
     datetime |-> datetime,
     date |-> matches.m2,
     time |-> matches.m3,
     type |-> type,
     part |-> IF matches.m5 = -1 THEN 1 ELSE matches.m5,
     backupId |-> <<matches.m1, matches.m2, matches.m3>>,
     year |-> DayjsYear(datetime),
     month |-> DayjsMonth(datetime) + 1,
     isFullBackup |-> (type = <<"full">>)]

\* the constructor from the date on: the date must be valid, and
\* parts[0].split("-")[1] must exist for toLowerCase
ConstructDated(key, bucketName, matches, datetime) ==
    IF ~IsValid(datetime) THEN Thrown
    ELSE IF Len(key[1]) < 2 THEN Thrown
    ELSE Descriptor(key, bucketName, matches, datetime, LowerSeg(key[1][2]))

\* the constructor from the match on
ConstructMatched(key, bucketName, matches) ==
    IF ~matches.matched THEN Thrown
    ELSE ConstructDated(key, bucketName, matches, DayjsParse(matches.m2, matches.m3))

\* new BackupObject(key, bucketName): the descriptor, or Thrown
BackupObject(key, bucketName) == ConstructMatched(key, bucketName, Match(Filename(key)))

getMonthKey(backup) == DayjsFormat(backup.datetime, <<"YYYY", "-", "MM">>)

getWeekKey(backup) == DayjsFormat(backup.datetime, <<"YYYY", "-", "[W]", "WW">>)

(***************************************************************************)
(* groupBackupsByObject: a Map keeps the order of first insertion.         *)
(***************************************************************************)
RECURSIVE FirstSeen(_, _)
\* the distinct values of f over the sequence s, in order of first appearance
FirstSeen(s, seen) ==
    IF s = <<>> THEN <<>>
    ELSE IF Head(s) \in seen THEN FirstSeen(Tail(s), seen)
    ELSE <<Head(s)>> \o FirstSeen(Tail(s), seen \cup {Head(s)})

groupBackupsByObject(backupObjects) ==
    LET names == FirstSeen([i \in 1..Len(backupObjects) |-> backupObjects[i].objectName], {})
        Of(n) == SelectSeq(backupObjects, LAMBDA b : b.objectName = n)
        Ids(bs) == FirstSeen([i \in 1..Len(bs) |-> bs[i].backupId], {})
        Groups(bs) == [j \in 1..Len(Ids(bs)) |->
                          SelectSeq(bs, LAMBDA b : b.backupId = Ids(bs)[j])]
    IN [k \in 1..Len(names) |-> [objectName |-> names[k], backupGroups |-> Groups(Of(names[k]))]]

RECURSIVE InsertSorted(_, _)
\* g goes after every group that is not later than it (Array.sort is stable)
InsertSorted(sorted, g) ==
    IF sorted = <<>> THEN <<g>>
    ELSE IF sorted[1][1].datetime - g[1].datetime <= 0
         THEN <<sorted[1]>> \o InsertSorted(Tail(sorted), g)
         ELSE <<g>> \o sorted

RECURSIVE SortGroups(_)
\* backupGroups.sort((a, b) => a[0].datetime.unix() - b[0].datetime.unix())
SortGroups(groups) ==
    IF groups = <<>> THEN <<>>
    ELSE InsertSorted(SortGroups(SubSeq(groups, 1, Len(groups) - 1)), groups[Len(groups)])

(***************************************************************************)
(* applyRetentionPolicy, as a machine whose state is the record ev: the    *)
(* function's locals. One step handles one group of one pass.              *)
(***************************************************************************)
KeysOf(group) == {group[i].key : i \in 1..Len(group)}

\* mutant: the first key the constructor throws on ends the parsing
ParseAll_StopsAtInvalid(backups) ==
    LET all == [i \in 1..Len(backups) |-> BackupObject(backups[i].Key, backups[i].bucketName)]
        bad == {i \in 1..Len(all) : all[i].thrown}
    IN SubSeq(all, 1, IF bad = {} THEN Len(all) ELSE (CHOOSE i \in bad : \A j \in bad : i <= j) - 1)

\* backups.map(obj => new BackupObject(...) or null).filter(Boolean)
ParseAll(backups) ==
    LET all == [i \in 1..Len(backups) |-> BackupObject(backups[i].Key, backups[i].bucketName)]
    IN SelectSeq(all, LAMBDA b : ~b.thrown)

NewObjectSummary(n) ==
    [totalBackups |-> n, yearlyBackups |-> 0, monthlyBackups |-> 0, weeklyBackups |-> 0,
     differentialBackups |-> 0, fullBackups |-> 0, retainedCount |-> 0, deleteCount |-> 0,
     retainedBackups |-> {}]

NewRetentionSummary == [totalBackups |-> 0, retainedCount |-> 0, deleteCount |-> 0, byObject |-> <<>>]

\* the locals on entry to the forEach over groupedBackups
EvalStart(backups) ==
    LET backupObjects == ParseAll(backups)
        groupedBackups == groupBackupsByObject(backupObjects)
    IN [pc |-> IF groupedBackups = <<>> THEN "delete" ELSE "object",
        backupObjects |-> backupObjects,
        groupedBackups |-> groupedBackups,
        retainedBackups |-> {},
        retentionSummary |-> NewRetentionSummary,
        backupsToDelete |-> <<>>,
        obj |-> 1,
        i |-> 1,
        sortedBackupGroups |-> <<>>,
        reversedGroups |-> <<>>,
        objectRetained |-> {},
        objectSummary |-> NewObjectSummary(0),
        retainedYears |-> {},
        retainedMonths |-> {},
        retainedWeeks |-> {},
        diffCount |-> 0,
        fullCount |-> 0]

\* top of the callback for one object: sort, fresh accumulators
StartObject(ev) ==
    LET sorted == SortGroups(ev.groupedBackups[ev.obj].backupGroups)
    IN [ev EXCEPT !.pc = "first",
                  !.i = 1,
                  !.sortedBackupGroups = sorted,
                  !.reversedGroups = Reverse(sorted),
                  !.objectRetained = {},
                  !.objectSummary = NewObjectSummary(Len(sorted)),
                  !.retainedYears = {},
                  !.retainedMonths = {},
                  !.retainedWeeks = {},
                  !.diffCount = 0,
                  !.fullCount = 0]

\* mutant: only the first part of the group is retained
RetainGroup_FirstPartOnly(ev, backupGroup) ==
    [ev EXCEPT !.objectRetained = @ \cup {backupGroup[1].key},
               !.retainedBackups = @ \cup {backupGroup[1].key}]

\* backupGroup.forEach(part => { objectRetained.add(part.key); retainedBackups.add(part.key) })
RetainGroup(ev, backupGroup) ==
    [ev EXCEPT !.objectRetained = @ \cup KeysOf(backupGroup),
               !.retainedBackups = @ \cup KeysOf(backupGroup)]

\* move to the next group of the pass, or to the next pass
Advance(ev, next) ==
    IF ev.i < Len(ev.sortedBackupGroups)
    THEN [ev EXCEPT !.i = @ + 1]
    ELSE [ev EXCEPT !.i = 1, !.pc = next]

\* mutant: the first pass passes over the newest group
FirstPassGroup_SkipsNewest(ev, cfg) ==
    LET backupGroup == ev.reversedGroups[ev.i]
        backup == backupGroup[1]
    IN IF ev.i > 1 /\ backup.isFullBackup /\ ev.fullCount < cfg.fullBackups
       THEN [RetainGroup(ev, backupGroup) EXCEPT
                !.fullCount = @ + 1,
                !.objectSummary.fullBackups = @ + 1]
       ELSE ev

\* mutant: the first pass walks the groups oldest first
FirstPassGroup_OldestFirst(ev, cfg) ==
    LET backupGroup == ev.sortedBackupGroups[ev.i]
        backup == backupGroup[1]
    IN IF backup.isFullBackup /\ ev.fullCount < cfg.fullBackups
       THEN [RetainGroup(ev, backupGroup) EXCEPT
                !.fullCount = @ + 1,
                !.objectSummary.fullBackups = @ + 1]
       ELSE ev

\* first pass, one group: the newest full backups up to the limit
FirstPassGroup(ev, cfg) ==
    LET backupGroup == ev.reversedGroups[ev.i]
        backup == backupGroup[1]
    IN IF backup.isFullBackup /\ ev.fullCount < cfg.fullBackups
       THEN [RetainGroup(ev, backupGroup) EXCEPT
                !.fullCount = @ + 1,
                !.objectSummary.fullBackups = @ + 1]
       ELSE ev

\* mutant: the second pass does not skip the groups already retained
SecondPassGroup_NoSkip(ev, cfg) ==
    LET backupGroup == ev.sortedBackupGroups[ev.i]
        backup == backupGroup[1]
        monthKey == getMonthKey(backup)
        yearly == /\ backup.year \notin ev.retainedYears
                  /\ Cardinality(ev.retainedYears) < cfg.yearlyBackups
        monthly == /\ monthKey \notin ev.retainedMonths
                   /\ Cardinality(ev.retainedMonths) < cfg.monthlyBackups
        ev1 == IF yearly
               THEN [ev EXCEPT !.retainedYears = @ \cup {backup.year},
                               !.objectSummary.yearlyBackups = @ + 1]
               ELSE ev
        ev2 == IF monthly
               THEN [ev1 EXCEPT !.retainedMonths = @ \cup {monthKey},
                                !.objectSummary.monthlyBackups = @ + 1]
               ELSE ev1
    IN IF backup.isFullBackup
       THEN IF yearly \/ monthly THEN RetainGroup(ev2, backupGroup) ELSE ev2
       ELSE ev

\* mutant: a group that takes a year does not go on to take a month
SecondPassGroup_OneTierOnly(ev, cfg) ==
    LET backupGroup == ev.sortedBackupGroups[ev.i]
        backup == backupGroup[1]
        monthKey == getMonthKey(backup)
        yearly == /\ backup.year \notin ev.retainedYears
                  /\ Cardinality(ev.retainedYears) < cfg.yearlyBackups
        monthly == /\ ~yearly
                   /\ monthKey \notin ev.retainedMonths
                   /\ Cardinality(ev.retainedMonths) < cfg.monthlyBackups
        ev1 == IF yearly
               THEN [ev EXCEPT !.retainedYears = @ \cup {backup.year},
                               !.objectSummary.yearlyBackups = @ + 1]
               ELSE ev
        ev2 == IF monthly
               THEN [ev1 EXCEPT !.retainedMonths = @ \cup {monthKey},
                                !.objectSummary.monthlyBackups = @ + 1]
               ELSE ev1
    IN IF backup.isFullBackup /\ backup.key \notin ev.objectRetained
       THEN IF yearly \/ monthly THEN RetainGroup(ev2, backupGroup) ELSE ev2
       ELSE ev

\* mutant: the second pass walks the groups newest first
SecondPassGroup_NewestFirst(ev, cfg) ==
    LET backupGroup == ev.reversedGroups[ev.i]
        backup == backupGroup[1]
        monthKey == getMonthKey(backup)
        yearly == /\ backup.year \notin ev.retainedYears
                  /\ Cardinality(ev.retainedYears) < cfg.yearlyBackups
        monthly == /\ monthKey \notin ev.retainedMonths
                   /\ Cardinality(ev.retainedMonths) < cfg.monthlyBackups
        ev1 == IF yearly
               THEN [ev EXCEPT !.retainedYears = @ \cup {backup.year},
                               !.objectSummary.yearlyBackups = @ + 1]
               ELSE ev
        ev2 == IF monthly
               THEN [ev1 EXCEPT !.retainedMonths = @ \cup {monthKey},
                                !.objectSummary.monthlyBackups = @ + 1]
               ELSE ev1
    IN IF backup.isFullBackup /\ backup.key \notin ev.objectRetained
       THEN IF yearly \/ monthly THEN RetainGroup(ev2, backupGroup) ELSE ev2
       ELSE ev

\* mutant: the yearly cap is compared with <= instead of <
SecondPassGroup_YearCapInclusive(ev, cfg) ==
    LET backupGroup == ev.sortedBackupGroups[ev.i]
        backup == backupGroup[1]
        monthKey == getMonthKey(backup)
        yearly == /\ backup.year \notin ev.retainedYears
                  /\ Cardinality(ev.retainedYears) <= cfg.yearlyBackups
        monthly == /\ monthKey \notin ev.retainedMonths
                   /\ Cardinality(ev.retainedMonths) < cfg.monthlyBackups
        ev1 == IF yearly
               THEN [ev EXCEPT !.retainedYears = @ \cup {backup.year},
                               !.objectSummary.yearlyBackups = @ + 1]
               ELSE ev
        ev2 == IF monthly
               THEN [ev1 EXCEPT !.retainedMonths = @ \cup {monthKey},
                                !.objectSummary.monthlyBackups = @ + 1]
               ELSE ev1
    IN IF backup.isFullBackup /\ backup.key \notin ev.objectRetained
       THEN IF yearly \/ monthly THEN RetainGroup(ev2, backupGroup) ELSE ev2
       ELSE ev

\* second pass, one group: yearly and monthly retention, oldest first
SecondPassGroup(ev, cfg) ==
    LET backupGroup == ev.sortedBackupGroups[ev.i]
        backup == backupGroup[1]
        monthKey == getMonthKey(backup)
        yearly == /\ backup.year \notin ev.retainedYears
                  /\ Cardinality(ev.retainedYears) < cfg.yearlyBackups
        monthly == /\ monthKey \notin ev.retainedMonths
                   /\ Cardinality(ev.retainedMonths) < cfg.monthlyBackups
        ev1 == IF yearly
               THEN [ev EXCEPT !.retainedYears = @ \cup {backup.year},
                               !.objectSummary.yearlyBackups = @ + 1]
               ELSE ev
        ev2 == IF monthly
               THEN [ev1 EXCEPT !.retainedMonths = @ \cup {monthKey},
                                !.objectSummary.monthlyBackups = @ + 1]
               ELSE ev1
    IN IF backup.isFullBackup /\ backup.key \notin ev.objectRetained
       THEN IF yearly \/ monthly THEN RetainGroup(ev2, backupGroup) ELSE ev2
       ELSE ev

\* mutant: the third pass walks the groups oldest first
ThirdPassGroup_OldestFirst(ev, cfg) ==
    LET backupGroup == ev.sortedBackupGroups[ev.i]
        backup == backupGroup[1]
        weekKey == getWeekKey(backup)
        weekly == /\ backup.isFullBackup /\ backup.key \notin ev.objectRetained
                  /\ weekKey \notin ev.retainedWeeks
                  /\ Cardinality(ev.retainedWeeks) < cfg.weeklyBackups
        differential == ~backup.isFullBackup /\ ev.diffCount < cfg.differentialBackups
        ev1 == IF weekly
               THEN [ev EXCEPT !.retainedWeeks = @ \cup {weekKey},
                               !.objectSummary.weeklyBackups = @ + 1]
               ELSE ev
        ev2 == IF differential
               THEN [ev1 EXCEPT !.diffCount = @ + 1,
                                !.objectSummary.differentialBackups = @ + 1]
               ELSE ev1
    IN IF weekly \/ differential THEN RetainGroup(ev2, backupGroup) ELSE ev2

\* third pass, one group: weekly retention and the differential window, newest first
ThirdPassGroup(ev, cfg) ==
    LET backupGroup == ev.reversedGroups[ev.i]
        backup == backupGroup[1]
        weekKey == getWeekKey(backup)
        weekly == /\ backup.isFullBackup /\ backup.key \notin ev.objectRetained
                  /\ weekKey \notin ev.retainedWeeks
                  /\ Cardinality(ev.retainedWeeks) < cfg.weeklyBackups
        differential == ~backup.isFullBackup /\ ev.diffCount < cfg.differentialBackups
        ev1 == IF weekly
               THEN [ev EXCEPT !.retainedWeeks = @ \cup {weekKey},
                               !.objectSummary.weeklyBackups = @ + 1]
               ELSE ev
        ev2 == IF differential
               THEN [ev1 EXCEPT !.diffCount = @ + 1,
                                !.objectSummary.differentialBackups = @ + 1]
               ELSE ev1
    IN IF weekly \/ differential THEN RetainGroup(ev2, backupGroup) ELSE ev2

FirstPassStep(ev, cfg) == Advance(FirstPassGroup(ev, cfg), "second")

SecondPassStep(ev, cfg) == Advance(SecondPassGroup(ev, cfg), "third")

ThirdPassStep(ev, cfg) == Advance(ThirdPassGroup(ev, cfg), "summary")

\* backupObjects.find(b => b.key === key)
FindByKey(backupObjects, key) ==
    backupObjects[CHOOSE i \in 1..Len(backupObjects) :
                     /\ backupObjects[i].key = key
                     /\ \A j \in 1..(i - 1) : backupObjects[j].key # key]

\* mutant: retainedCount is taken from the set shared by all objects
SummarizeObject_SharedSetSize(ev) ==
    LET objectName == ev.groupedBackups[ev.obj].objectName
        ofObject == SelectSeq(ev.backupObjects, LAMBDA b : b.objectName = objectName)
        retainedCount == Cardinality(ev.retainedBackups)
        deleteCount == Len(ofObject) - retainedCount
        details == {[key |-> k,
                     type |-> FindByKey(ev.backupObjects, k).type,
                     part |-> FindByKey(ev.backupObjects, k).part] : k \in ev.objectRetained}
        objectSummary == [ev.objectSummary EXCEPT !.retainedCount = retainedCount,
                                                  !.deleteCount = deleteCount,
                                                  !.retainedBackups = details]
        summary == ev.retentionSummary
    IN [ev EXCEPT
          !.objectSummary = objectSummary,
          !.retentionSummary =
              [totalBackups |-> summary.totalBackups + objectSummary.totalBackups,
               retainedCount |-> summary.retainedCount + retainedCount,
               deleteCount |-> summary.deleteCount + deleteCount,
               byObject |-> Append(SelectSeq(summary.byObject,
                                             LAMBDA e : e.objectName # objectName),
                                   [objectName |-> objectName, summary |-> objectSummary])],
          !.obj = @ + 1,
          !.pc = IF ev.obj < Len(ev.groupedBackups) THEN "object" ELSE "delete"]

\* end of the callback: the object's summary and the running totals
SummarizeObject(ev) ==
    LET objectName == ev.groupedBackups[ev.obj].objectName
        ofObject == SelectSeq(ev.backupObjects, LAMBDA b : b.objectName = objectName)
        retainedCount == Cardinality(ev.objectRetained)
        deleteCount == Len(ofObject) - retainedCount
        details == {[key |-> k,
                     type |-> FindByKey(ev.backupObjects, k).type,
                     part |-> FindByKey(ev.backupObjects, k).part] : k \in ev.objectRetained}
        objectSummary == [ev.objectSummary EXCEPT !.retainedCount = retainedCount,
                                                  !.deleteCount = deleteCount,
                                                  !.retainedBackups = details]
        summary == ev.retentionSummary
    IN [ev EXCEPT
          !.objectSummary = objectSummary,
          !.retentionSummary =
              [totalBackups |-> summary.totalBackups + objectSummary.totalBackups,
               retainedCount |-> summary.retainedCount + retainedCount,
               deleteCount |-> summary.deleteCount + deleteCount,
               byObject |-> Append(SelectSeq(summary.byObject,
                                             LAMBDA e : e.objectName # objectName),
                                   [objectName |-> objectName, summary |-> objectSummary])],
          !.obj = @ + 1,
          !.pc = IF ev.obj < Len(ev.groupedBackups) THEN "object" ELSE "delete"]

\* mutant: every descriptor goes into the delete set
ComputeDelete_SkipsFilter(ev) ==
    [ev EXCEPT
       !.backupsToDelete =
           [j \in 1..Len(ev.backupObjects) |-> [key |-> ev.backupObjects[j].key,
                                                bucketName |-> ev.backupObjects[j].bucketName,
                                                type |-> ev.backupObjects[j].type]],
       !.pc = "done"]

\* mutant: the delete set is taken from the first part of each group only
ComputeDelete_RepsOnly(ev) ==
    [ev EXCEPT
       !.backupsToDelete =
           LET rest == SelectSeq(ev.backupObjects,
                                 LAMBDA b : /\ b.key \notin ev.retainedBackups
                                            /\ \E k \in 1..Len(ev.groupedBackups) :
                                                  \E g \in Range(ev.groupedBackups[k].backupGroups) :
                                                      g[1].key = b.key)
           IN [j \in 1..Len(rest) |-> [key |-> rest[j].key,
                                       bucketName |-> rest[j].bucketName,
                                       type |-> rest[j].type]],
       !.pc = "done"]

\* backupObjects.filter(backup => !retainedBackups.has(backup.key)).map(...)
ComputeDelete(ev) ==
    [ev EXCEPT
       !.backupsToDelete =
           LET rest == SelectSeq(ev.backupObjects, LAMBDA b : b.key \notin ev.retainedBackups)
           IN [j \in 1..Len(rest) |-> [key |-> rest[j].key,
                                       bucketName |-> rest[j].bucketName,
                                       type |-> rest[j].type]],
       !.pc = "done"]

EvalStep(ev, cfg) ==
    CASE ev.pc = "object" -> StartObject(ev)
      [] ev.pc = "first" -> FirstPassStep(ev, cfg)
      [] ev.pc = "second" -> SecondPassStep(ev, cfg)
      [] ev.pc = "third" -> ThirdPassStep(ev, cfg)
      [] ev.pc = "summary" -> SummarizeObject(ev)
      [] ev.pc = "delete" -> ComputeDelete(ev)
      [] OTHER -> ev

RECURSIVE EvalRun(_, _)
EvalRun(ev, cfg) == IF ev.pc = "done" THEN ev ELSE EvalRun(EvalStep(ev, cfg), cfg)

\* return { retainedBackups, backupsToDelete, summary: retentionSummary }
Returned(ev) ==
    [retainedBackups |-> ev.retainedBackups,
     backupsToDelete |-> ev.backupsToDelete,
     summary |-> ev.retentionSummary]

\* the value applyRetentionPolicy returns
applyRetentionPolicy(backups, retentionConfig) ==
    Returned(EvalRun(EvalStart(backups), retentionConfig))

(***************************************************************************)
(* The keys the model draws inventories from, in the order the store lists *)
(* them.                                                                   *)
(***************************************************************************)
Full(name, ymd) == <<DirComp("backups", "full"), FileComp(name, ymd, 120000, "full", 0, "bak")>>

FullPart(name, ymd, part) ==
    <<DirComp("backups", "full"), FileComp(name, ymd, 120000, "full", part, "bak")>>

Diff(name, ymd) == <<DirComp("backups", "diff"), FileComp(name, ymd, 120000, "diff", 0, "bak")>>

KeyUniverse ==
    << <<DirComp("backups", "Full"), FileComp("Orders", 20231301, 120000, "full", 0, "bak")>>,
       Diff("Orders", 20230602),
       Diff("Orders", 20230603),
       <<DirComp("backups", "diff"), FileComp("Sales", 20230301, 120000, "full", 2, "bak")>>,
       Diff("Sales", 20230302),
       Full("Orders", 20230101),
       Full("Orders", 20230108),
       Full("Orders", 20230601),
       Full("Orders", 20240101),
       <<DirComp("backups", "full"), BadComp("Orders", 2024, "bak")>>,
       FullPart("Sales", 20230301, 1),
       FullPart("Sales", 20230301, 2),
       FullPart("Sales", 20230301, 3) >>

RECURSIVE IncreasingSeqs(_, _, _)
\* the strictly increasing index sequences over lo..n of length at most len
IncreasingSeqs(lo, n, len) ==
    IF len = 0 \/ lo > n THEN {<<>>}
    ELSE IncreasingSeqs(lo + 1, n, len)
         \cup {<<lo>> \o t : t \in IncreasingSeqs(lo + 1, n, len - 1)}

\* the contents a bucket may have: at most maxLen distinct keys of the universe, in
\* the universe's order or in the reverse order
KeyLists(universe, maxLen) ==
    LET picks == IncreasingSeqs(1, Len(universe), maxLen)
        Keys(p) == [i \in 1..Len(p) |-> universe[p[i]]]
    IN {Keys(p) : p \in picks} \cup {Reverse(Keys(p)) : p \in picks}

\* the Contents entry of a listing response for a key
ListedObject(key) == [Key |-> key]

\* objects.forEach(obj => obj.bucketName = bucketName)
TagBucket(objs, bucketName) ==
    [i \in 1..Len(objs) |-> [Key |-> objs[i].Key, bucketName |-> bucketName]]

\* the objects of a listing of the given keys
Listed(keys) == [i \in 1..Len(keys) |-> ListedObject(keys[i])]

\* the policies whose five caps add up to at most maxSum
Policies(maxSum) ==
    {c \in [fullBackups : 0..maxSum, yearlyBackups : 0..maxSum, monthlyBackups : 0..maxSum,
            weeklyBackups : 0..maxSum, differentialBackups : 0..maxSum] :
        c.fullBackups + c.yearlyBackups + c.monthlyBackups + c.weeklyBackups
            + c.differentialBackups <= maxSum}

(***************************************************************************)
(* The object store and deleteS3Objects' batching.                         *)
(***************************************************************************)
chunkSize == 1000

\* mutant: each slice runs one key into the next chunk
Chunks_SliceOverlaps(keys) ==
    [c \in 1..((Len(keys) + chunkSize - 1) \div chunkSize) |->
        SubSeq(keys, (c - 1) * chunkSize + 1, Min(c * chunkSize + 1, Len(keys)))]

RECURSIVE Chunks(_)
\* for (i = 0; i < keys.length; i += chunkSize) chunks.push(keys.slice(i, i + chunkSize))
Chunks(keys) ==
    IF keys = <<>> THEN <<>>
    ELSE <<SubSeq(keys, 1, Min(chunkSize, Len(keys)))>>
         \o Chunks(SubSeq(keys, Min(chunkSize, Len(keys)) + 1, Len(keys)))

\* the store's answer to ListObjectsV2 with the given continuation token: a page of
\* at most PageSize objects and the token of the next page. Token 0 is "no token"; the
\* token of a later page is the number of keys listed before it.
ListResponse(content, token) ==
    LET upto == Min(token + PageSize, Len(content))
    IN [Contents |-> Listed(SubSeq(content, token + 1, upto)),
        NextContinuationToken |-> IF upto < Len(content) THEN upto ELSE 0]

\* a DeleteObjects response reporting the keys deleted and the keys refused, each
\* refused key with a message of its own
DeleteOutput(deleted, refused) ==
    [Deleted |-> [i \in 1..Len(deleted) |-> [Key |-> deleted[i]]],
     Errors |-> [i \in 1..Len(refused) |->
                    [Key |-> refused[i], Message |-> <<"refused", refused[i]>>]]]

\* the store's answer to DeleteObjects when it refuses the keys of the set
DeleteResponseWith(chunk, refused) ==
    DeleteOutput(SelectSeq(chunk, LAMBDA k : k \notin refused),
                 SelectSeq(chunk, LAMBDA k : k \in refused))

\* the store's answer to DeleteObjects: every key of the request is reported deleted
DeleteResponse(chunk) == DeleteResponseWith(chunk, {})

\* the content of a bucket after the keys are deleted
Without(content, keys) == SelectSeq(content, LAMBDA k : k \notin Range(keys))

\* the most list requests one listing needs
MaxListRequests == (MaxRunInv + PageSize - 1) \div PageSize

NoFault == [bucket |-> "none", op |-> "none", at |-> 0]

\* at most one request of a run fails: the at-th list request of a bucket, the write
\* of its listing file, or its first delete request
Faults(buckets) ==
    {NoFault}
    \cup [bucket : Range(buckets), op : {"list"}, at : 1..MaxListRequests]
    \cup [bucket : Range(buckets), op : {"write", "delete"}, at : {1}]

RunUniverse == <<Diff("Orders", 20230602), Full("Orders", 20230101), Full("Orders", 20230601)>>

Buckets == <<"b1", "b2">>

(***************************************************************************)
(* listS3Objects, deleteS3Objects and processBackups, piece by piece.      *)
(***************************************************************************)
\* mutant: each page replaces the objects collected so far
ListAccumulate_Replace(objs, response) ==
    [objects |-> response.Contents,
     continuationToken |-> response.NextContinuationToken]

\* the body of the do-while of listS3Objects after a response:
\* objects.push(...response.Contents); continuationToken = response.NextContinuationToken
ListAccumulate(objs, response) ==
    [objects |-> objs \o response.Contents,
     continuationToken |-> response.NextContinuationToken]

\* mutant: the loop stops after the first page
ListContinues_Never(token) == FALSE

\* while (continuationToken)
ListContinues(token) == token # 0

\* mutant: the error is logged and the pages fetched so far are returned
ListCatch_ReturnsPartial(objs) == [rethrow |-> FALSE, objects |-> objs]

\* the catch of listS3Objects: log and throw; the local objects is lost
ListCatch(objs) == [rethrow |-> TRUE, objects |-> <<>>]

NoResult == [none |-> TRUE]

NoFirst == [set |-> FALSE, allResults |-> <<>>, log |-> <<>>]

NewAllResults ==
    [byBucket |-> <<>>, totalSummary |-> [totalBackups |-> 0, retainedCount |-> 0, deleteCount |-> 0]]

NewDeletionResults == [successful |-> <<>>, failed |-> <<>>]

\* allResults.byBucket[bucketName] = value
SetBucket(all, bucketName, value) ==
    [all EXCEPT !.byBucket =
        [b \in DOMAIN all.byBucket \cup {bucketName} |->
            IF b = bucketName THEN value ELSE all.byBucket[b]]]

\* mutant: the totals are overwritten with the bucket's summary
RecordResult_OverwritesTotals(all, bucketName, res) ==
    [SetBucket(all, bucketName, res) EXCEPT
        !.totalSummary = [totalBackups |-> res.summary.totalBackups,
                          retainedCount |-> res.summary.retainedCount,
                          deleteCount |-> res.summary.deleteCount]]

\* allResults.byBucket[bucketName] = result and the three += on totalSummary
RecordResult(all, bucketName, res) ==
    [SetBucket(all, bucketName, res) EXCEPT
        !.totalSummary = [totalBackups |-> @.totalBackups + res.summary.totalBackups,
                          retainedCount |-> @.retainedCount + res.summary.retainedCount,
                          deleteCount |-> @.deleteCount + res.summary.deleteCount]]

\* mutant: an error in one bucket ends the loop over the buckets
CatchBucketError_EndsLoop(all, cfg, idx, message) ==
    [allResults |-> SetBucket(all, cfg.buckets[idx], [error |-> message]),
     bucketIdx |-> Len(cfg.buckets) + 1]

\* the catch of the per-bucket try: allResults.byBucket[bucketName] = { error }, and
\* the for loop goes on with the next bucket
CatchBucketError(all, cfg, idx, message) ==
    [allResults |-> SetBucket(all, cfg.buckets[idx], [error |-> message]),
     bucketIdx |-> idx + 1]

\* mutant: dryRun is not consulted
DeletionAuthorized_IgnoresDryRun(cfg) == cfg.deleteNonRetained

\* if (config.deleteNonRetained && !config.dryRun)
DeletionAuthorized(cfg) == cfg.deleteNonRetained /\ ~cfg.dryRun

\* mutant: a dry run reports nothing to delete
EvaluateBucket_DryRunHidesDeletes(objs, bucketName, cfg) ==
    LET res == applyRetentionPolicy(TagBucket(objs, bucketName), cfg.retention)
    IN IF cfg.dryRun THEN [res EXCEPT !.backupsToDelete = <<>>] ELSE res

\* objects.forEach(obj => obj.bucketName = bucketName);
\* result = applyRetentionPolicy(objects, config.retention)
EvaluateBucket(objs, bucketName, cfg) ==
    applyRetentionPolicy(TagBucket(objs, bucketName), cfg.retention)

\* result.backupsToDelete.map(b => b.key)
KeysToSend(res) == [i \in 1..Len(res.backupsToDelete) |-> res.backupsToDelete[i].key]

\* deleteS3Objects, after the response to one chunk
DeleteSucceeded(results, response, bucketName) ==
    [results EXCEPT
        !.successful = @ \o [i \in 1..Len(response.Deleted) |-> response.Deleted[i].Key],
        !.failed = @ \o [i \in 1..Len(response.Errors) |->
                            [key |-> response.Errors[i].Key,
                             error |-> response.Errors[i].Message,
                             bucket |-> bucketName]]]

\* mutant: the catch records the chunk's first key only
DeleteFailed_FirstKeyOnly(results, chunk, bucketName, message) ==
    [results EXCEPT !.failed =
        Append(@, [key |-> chunk[1], error |-> message, bucket |-> bucketName])]

\* deleteS3Objects, the catch around one chunk's request
DeleteFailed(results, chunk, bucketName, message) ==
    [results EXCEPT !.failed =
        @ \o [i \in 1..Len(chunk) |-> [key |-> chunk[i], error |-> message, bucket |-> bucketName]]]

\* result.deletionResult = deletionResult
WithDeletionResult(res, deletionResult) ==
    [retainedBackups |-> res.retainedBackups,
     backupsToDelete |-> res.backupsToDelete,
     summary |-> res.summary,
     deletionResult |-> deletionResult]

\* an entry of the history
Event(op, bucketName, token, next, keys) ==
    [op |-> op, bucket |-> bucketName, token |-> token, next |-> next, keys |-> keys]

(***************************************************************************)
(* State.                                                                  *)
(***************************************************************************)
VARIABLES
    backups,            \* applyRetentionPolicy: the objects passed in
    retentionConfig,    \* applyRetentionPolicy: the policy passed in
    ev,                 \* applyRetentionPolicy: its locals and position
    config,             \* processBackups: buckets, retention, dryRun, deleteNonRetained
    inventory,          \* the content of each bucket when the run starts
    store,              \* the content of each bucket now
    fault,              \* the request the store fails
    pc,                 \* processBackups: position
    bucketIdx,          \* processBackups: index of bucketName in config.buckets
    continuationToken,  \* listS3Objects: continuationToken (0 = undefined)
    objects,            \* listS3Objects: objects
    result,             \* processBackups: result of applyRetentionPolicy
    chunkIdx,           \* deleteS3Objects: index of the chunk to send next
    deletionResults,    \* deleteS3Objects: deletionResults
    allResults,         \* processBackups: allResults
    log,                \* history: the requests sent and the evaluations made, in order
    first,              \* the outcome of the first of two runs compared, if any
    callKeys,           \* deleteS3Objects called on its own: the keys passed in
    storePlan,          \* the delete requests the store fails whole, the keys it refuses
    configs,            \* main: the configurations loadConfig returned
    mainPc,             \* main: position ("none" when main is not modelled)
    mainIdx,            \* main: index of config in configs
    scheduled,          \* the configurations whose callback cron.schedule registered
    ticks,              \* the number of cron callbacks run so far
    prunePc,            \* prune: position ("none" when prune is not modelled)
    pruneIdx,           \* prune: place of bucket in the for-in over results.byBucket
    finalTable,         \* prune: finalTable, a bag of rows
    runs                \* the calls of processBackups the cron callbacks started

evalVars == <<backups, retentionConfig, ev>>

runVars == <<config, inventory, store, fault, pc, bucketIdx, continuationToken, objects,
             result, chunkIdx, deletionResults, allResults, log, first>>

callVars == <<callKeys, storePlan>>

vars == <<backups, retentionConfig, ev, config, inventory, store, fault, pc, bucketIdx,
          continuationToken, objects, result, chunkIdx, deletionResults, allResults, log,
          first, callKeys, storePlan, configs, mainPc, mainIdx, scheduled, ticks,
          prunePc, pruneIdx, finalTable, runs>>

mainVars == <<configs, mainPc, mainIdx, scheduled, ticks>>

\* main is not modelled
MainUnused ==
    /\ configs = <<>>
    /\ mainPc = "none"
    /\ mainIdx = 1
    /\ scheduled = <<>>
    /\ ticks = 0

pruneVars == <<prunePc, pruneIdx, finalTable>>

cronVars == <<runs>>

\* prune is not modelled
PruneUnused ==
    /\ prunePc = "none"
    /\ pruneIdx = 1
    /\ finalTable = EmptyBag

\* no cron callback starts a call of its own
CronUnused == runs = <<>>

NoPlan == [requests |-> {}, keys |-> {}]

\* deleteS3Objects is not called on its own
CallUnused ==
    /\ callKeys = <<>>
    /\ storePlan = NoPlan

EvalIdle == [EvalStart(<<>>) EXCEPT !.pc = "start"]

NoConfig == [buckets |-> <<>>, retention |-> [fullBackups |-> 0, yearlyBackups |-> 0,
             monthlyBackups |-> 0, weeklyBackups |-> 0, differentialBackups |-> 0],
             dryRun |-> TRUE, deleteNonRetained |-> FALSE]

\* processBackups on entry: allResults empty, nothing listed
RunFresh ==
    /\ pc = "loop"
    /\ bucketIdx = 1
    /\ continuationToken = 0
    /\ objects = <<>>
    /\ result = NoResult
    /\ chunkIdx = 1
    /\ deletionResults = NewDeletionResults
    /\ allResults = NewAllResults
    /\ log = <<>>

(***************************************************************************)
(* Spec: one call of applyRetentionPolicy.                                 *)
(***************************************************************************)
Init ==
    /\ backups \in {TagBucket(Listed(keys), "b1") : keys \in KeyLists(KeyUniverse, MaxInv)}
    /\ retentionConfig \in Policies(MaxCapSum)
    /\ ev = EvalIdle
    /\ config = NoConfig
    /\ inventory = <<>>
    /\ store = <<>>
    /\ fault = NoFault
    /\ RunFresh
    /\ first = NoFirst
    /\ CallUnused
    /\ MainUnused
    /\ PruneUnused
    /\ CronUnused

\* mutant: retentionSummary outlives the call
Parse_KeepsSummary ==
    /\ ev.pc = "start"
    /\ ev' = [EvalStart(backups) EXCEPT !.retentionSummary = ev.retentionSummary]
    /\ UNCHANGED <<backups, retentionConfig>>
    /\ UNCHANGED runVars
    /\ UNCHANGED callVars
    /\ UNCHANGED mainVars
    /\ UNCHANGED pruneVars
    /\ UNCHANGED cronVars

Parse ==
    /\ ev.pc = "start"
    /\ ev' = EvalStart(backups)
    /\ UNCHANGED <<backups, retentionConfig>>
    /\ UNCHANGED runVars
    /\ UNCHANGED callVars
    /\ UNCHANGED mainVars
    /\ UNCHANGED pruneVars
    /\ UNCHANGED cronVars

BeginObject ==
    /\ ev.pc = "object"
    /\ ev' = StartObject(ev)
    /\ UNCHANGED <<backups, retentionConfig>>
    /\ UNCHANGED runVars
    /\ UNCHANGED callVars
    /\ UNCHANGED mainVars
    /\ UNCHANGED pruneVars
    /\ UNCHANGED cronVars

FirstPass ==
    /\ ev.pc = "first"
    /\ ev' = FirstPassStep(ev, retentionConfig)
    /\ UNCHANGED <<backups, retentionConfig>>
    /\ UNCHANGED runVars
    /\ UNCHANGED callVars
    /\ UNCHANGED mainVars
    /\ UNCHANGED pruneVars
    /\ UNCHANGED cronVars

SecondPass ==
    /\ ev.pc = "second"
    /\ ev' = SecondPassStep(ev, retentionConfig)
    /\ UNCHANGED <<backups, retentionConfig>>
    /\ UNCHANGED runVars
    /\ UNCHANGED callVars
    /\ UNCHANGED mainVars
    /\ UNCHANGED pruneVars
    /\ UNCHANGED cronVars

ThirdPass ==
    /\ ev.pc = "third"
    /\ ev' = ThirdPassStep(ev, retentionConfig)
    /\ UNCHANGED <<backups, retentionConfig>>
    /\ UNCHANGED runVars
    /\ UNCHANGED callVars
    /\ UNCHANGED mainVars
    /\ UNCHANGED pruneVars
    /\ UNCHANGED cronVars

Summarize ==
    /\ ev.pc = "summary"
    /\ ev' = SummarizeObject(ev)
    /\ UNCHANGED <<backups, retentionConfig>>
    /\ UNCHANGED runVars
    /\ UNCHANGED callVars
    /\ UNCHANGED mainVars
    /\ UNCHANGED pruneVars
    /\ UNCHANGED cronVars

Partition ==
    /\ ev.pc = "delete"
    /\ ev' = ComputeDelete(ev)
    /\ UNCHANGED <<backups, retentionConfig>>
    /\ UNCHANGED runVars
    /\ UNCHANGED callVars
    /\ UNCHANGED mainVars
    /\ UNCHANGED pruneVars
    /\ UNCHANGED cronVars

Next ==
    \/ Parse
    \/ BeginObject
    \/ FirstPass
    \/ SecondPass
    \/ ThirdPass
    \/ Summarize
    \/ Partition

Spec == Init /\ [][Next]_vars

(***************************************************************************)
(* SpecTwice: applyRetentionPolicy called a second time on the same        *)
(* objects and policy, with everything the first call left behind.         *)
(***************************************************************************)
InitTwice ==
    /\ backups \in {TagBucket(Listed(keys), "b1") : keys \in KeyLists(KeyUniverse, MaxRunInv)}
    /\ retentionConfig \in Policies(MaxRunCapSum)
    /\ ev = EvalIdle
    /\ config = NoConfig
    /\ inventory = <<>>
    /\ store = <<>>
    /\ fault = NoFault
    /\ RunFresh
    /\ first = NoFirst
    /\ CallUnused
    /\ MainUnused
    /\ PruneUnused
    /\ CronUnused

\* the first call has returned; its result is put aside and the function is entered
\* again, the locals of the first call still holding what it left in them
CallAgain ==
    /\ ev.pc = "done"
    /\ ~first.set
    /\ first' = [set |-> TRUE, allResults |-> Returned(ev), log |-> <<>>]
    /\ ev' = [ev EXCEPT !.pc = "start"]
    /\ UNCHANGED <<backups, retentionConfig>>
    /\ UNCHANGED <<config, inventory, store, fault, pc, bucketIdx, continuationToken,
                   objects, result, chunkIdx, deletionResults, allResults, log>>
    /\ UNCHANGED callVars
    /\ UNCHANGED mainVars
    /\ UNCHANGED pruneVars
    /\ UNCHANGED cronVars

NextTwice ==
    \/ Parse
    \/ BeginObject
    \/ FirstPass
    \/ SecondPass
    \/ ThirdPass
    \/ Summarize
    \/ Partition
    \/ CallAgain

SpecTwice == InitTwice /\ [][NextTwice]_vars

(***************************************************************************)
(* SpecParts: applyRetentionPolicy called on an inventory and then on the  *)
(* same objects with the parts of one backup group delivered in another    *)
(* order.                                                                  *)
(***************************************************************************)
\* a group of three parts of which one sits under the differential directory, a
\* group of two parts under it, and a full backup of the same object
PartUniverse ==
    << <<DirComp("backups", "diff"), FileComp("Sales", 20230301, 120000, "full", 2, "bak")>>,
       <<DirComp("backups", "diff"), FileComp("Sales", 20230302, 120000, "diff", 1, "bak")>>,
       <<DirComp("backups", "diff"), FileComp("Sales", 20230302, 120000, "diff", 2, "bak")>>,
       Full("Sales", 20230201),
       FullPart("Sales", 20230301, 1),
       FullPart("Sales", 20230301, 3) >>

\* the group a listed object falls in: objectName and backupId (backupId holds the
\* objectName); an object the constructor throws on is in no group
PartGroup(obj) ==
    LET d == BackupObject(obj.Key, obj.bucketName)
    IN IF d.thrown THEN <<"none", obj.Key>> ELSE <<"group", d.backupId>>

\* the objects moved by the permutation p of their places
Permuted(objs, p) == [i \in 1..Len(objs) |-> objs[p[i]]]

\* the other orders of the objects that differ in the places of one group only
PartOrders(objs) ==
    LET n == Len(objs)
        perms == {p \in [1..n -> 1..n] : \A i \in 1..n : \E j \in 1..n : p[j] = i}
    IN {Permuted(objs, p) :
          p \in {q \in perms :
                    /\ \E i \in 1..n : q[i] # i
                    /\ \E g \in {PartGroup(objs[i]) : i \in 1..n} :
                          \A i \in 1..n : PartGroup(objs[i]) # g => q[i] = i}}

InitParts ==
    /\ backups \in {TagBucket(Listed(keys), "b1") : keys \in KeyLists(PartUniverse, MaxInv)}
    /\ retentionConfig \in Policies(MaxCapSum)
    /\ ev = EvalIdle
    /\ config = NoConfig
    /\ inventory = <<>>
    /\ store = <<>>
    /\ fault = NoFault
    /\ RunFresh
    /\ first = NoFirst
    /\ CallUnused
    /\ MainUnused
    /\ PruneUnused
    /\ CronUnused

\* the first call has returned; its result is put aside and the function is called
\* on the objects in another order of the parts of one group
Redeliver ==
    /\ ev.pc = "done"
    /\ ~first.set
    /\ backups' \in PartOrders(backups)
    /\ first' = [set |-> TRUE, allResults |-> Returned(ev), log |-> <<>>]
    /\ ev' = [ev EXCEPT !.pc = "start"]
    /\ UNCHANGED retentionConfig
    /\ UNCHANGED <<config, inventory, store, fault, pc, bucketIdx, continuationToken,
                   objects, result, chunkIdx, deletionResults, allResults, log>>
    /\ UNCHANGED callVars
    /\ UNCHANGED mainVars
    /\ UNCHANGED pruneVars
    /\ UNCHANGED cronVars

NextParts ==
    \/ Parse
    \/ BeginObject
    \/ FirstPass
    \/ SecondPass
    \/ ThirdPass
    \/ Summarize
    \/ Partition
    \/ Redeliver

SpecParts == InitParts /\ [][NextParts]_vars

(***************************************************************************)
(* SpecFixed: applyRetentionPolicy called on an inventory and then on what *)
(* a fully successful deletion leaves of it.                               *)
(***************************************************************************)
\* the objects left when the keys are deleted
Remaining(objs, deleted) == SelectSeq(objs, LAMBDA o : o.Key \notin deleted)

\* the objects whose keys are in the set
Only(objs, keys) == SelectSeq(objs, LAMBDA o : o.Key \in keys)

\* the first call has returned; its result is put aside and the function is called
\* on exactly the objects it retained, or on those and the objects it did not parse:
\* what the bucket lists once backupsToDelete is deleted
CallOnRetained ==
    /\ ev.pc = "done"
    /\ ~first.set
    /\ \/ backups' = Only(backups, ev.retainedBackups)
       \/ backups' = Remaining(backups, Range(KeysToSend(Returned(ev))))
    /\ first' = [set |-> TRUE, allResults |-> Returned(ev), log |-> <<>>]
    /\ ev' = [ev EXCEPT !.pc = "start"]
    /\ UNCHANGED retentionConfig
    /\ UNCHANGED <<config, inventory, store, fault, pc, bucketIdx, continuationToken,
                   objects, result, chunkIdx, deletionResults, allResults, log>>
    /\ UNCHANGED callVars
    /\ UNCHANGED mainVars
    /\ UNCHANGED pruneVars
    /\ UNCHANGED cronVars

NextFixed ==
    \/ Parse
    \/ BeginObject
    \/ FirstPass
    \/ SecondPass
    \/ ThirdPass
    \/ Summarize
    \/ Partition
    \/ CallOnRetained

SpecFixed == Init /\ [][NextFixed]_vars

(***************************************************************************)
(* SpecParse: applyRetentionPolicy on one object, whose key has one to     *)
(* MaxDepth path components and any date and time digits.                  *)
(***************************************************************************)
\* the path components of the keys: directories with and without a type, file names
\* in the grammar with valid and invalid dates and times, a file name outside it
ParseComps ==
    {DirComp("backups", "full"), DirComp("backups", "Diff"), PlainComp("misc"),
     BadComp("Orders", 2024, "bak")}
    \cup {FileComp("Orders", ymd, 120000, "full", part, "bak") :
             ymd \in {20240101, 20231301, 20230132, 20230229}, part \in {0, 2}}
    \cup {FileComp("Orders", 20240101, hms, "full", 0, "bak") : hms \in {250000, 126000}}

RECURSIVE KeysOfDepth(_)
KeysOfDepth(n) ==
    IF n = 0 THEN {<<>>}
    ELSE {Append(k, c) : k \in KeysOfDepth(n - 1), c \in ParseComps}

ParseKeys == UNION {KeysOfDepth(n) : n \in 1..MaxDepth}

InitParse ==
    /\ backups \in {TagBucket(Listed(<<key>>), "b1") : key \in ParseKeys}
    /\ retentionConfig \in Policies(MaxRunCapSum)
    /\ ev = EvalIdle
    /\ config = NoConfig
    /\ inventory = <<>>
    /\ store = <<>>
    /\ fault = NoFault
    /\ RunFresh
    /\ first = NoFirst
    /\ CallUnused
    /\ MainUnused
    /\ PruneUnused
    /\ CronUnused

SpecParse == InitParse /\ [][Next]_vars

(***************************************************************************)
(* SpecRun: one call of processBackups on two buckets.                     *)
(***************************************************************************)
EvalUnused ==
    /\ backups = <<>>
    /\ retentionConfig = NoConfig.retention
    /\ ev = EvalIdle

InitRun ==
    /\ EvalUnused
    /\ config \in [buckets : {Buckets}, retention : Policies(MaxRunCapSum),
                   dryRun : BOOLEAN, deleteNonRetained : BOOLEAN]
    /\ inventory \in [Range(Buckets) -> KeyLists(RunUniverse, MaxRunInv)]
    /\ store = inventory
    /\ fault \in Faults(Buckets)
    /\ RunFresh
    /\ first = NoFirst
    /\ CallUnused
    /\ MainUnused
    /\ PruneUnused
    /\ CronUnused

bucketName == config.buckets[bucketIdx]

\* the number of requests of the kind already sent for the bucket
Sent(op, b) == Cardinality({i \in 1..Len(log) : log[i].op = op /\ log[i].bucket = b})

\* the store fails the request about to be sent
Faulted(op) == fault.bucket = bucketName /\ fault.op = op /\ fault.at = Sent(op, bucketName) + 1

\* for (const bucketName of config.buckets): the next bucket's listing begins
LoopNext ==
    /\ pc = "loop"
    /\ bucketIdx <= Len(config.buckets)
    /\ pc' = "list"
    /\ continuationToken' = 0
    /\ objects' = <<>>
    /\ result' = NoResult
    /\ chunkIdx' = 1
    /\ deletionResults' = NewDeletionResults
    /\ UNCHANGED <<config, inventory, store, fault, bucketIdx, allResults, log, first>>
    /\ UNCHANGED evalVars
    /\ UNCHANGED callVars
    /\ UNCHANGED mainVars
    /\ UNCHANGED pruneVars
    /\ UNCHANGED cronVars

\* the loop is over: finally { s3Client.destroy() } and return allResults
LoopEnd ==
    /\ pc = "loop"
    /\ bucketIdx > Len(config.buckets)
    /\ pc' = "done"
    /\ UNCHANGED <<config, inventory, store, fault, bucketIdx, continuationToken, objects,
                   result, chunkIdx, deletionResults, allResults, log, first>>
    /\ UNCHANGED evalVars
    /\ UNCHANGED callVars
    /\ UNCHANGED mainVars
    /\ UNCHANGED pruneVars
    /\ UNCHANGED cronVars

\* listS3Objects: one page is requested and answered
ListPage ==
    /\ pc = "list"
    /\ ~Faulted("list")
    /\ LET response == ListResponse(store[bucketName], continuationToken)
           after == ListAccumulate(objects, response)
       IN /\ objects' = after.objects
          /\ continuationToken' = after.continuationToken
          /\ pc' = IF ListContinues(after.continuationToken) THEN "list" ELSE "write"
          /\ log' = Append(log, Event("list", bucketName, continuationToken,
                                      response.NextContinuationToken, <<>>))
    /\ UNCHANGED <<config, inventory, store, fault, bucketIdx, result, chunkIdx,
                   deletionResults, allResults, first>>
    /\ UNCHANGED evalVars
    /\ UNCHANGED callVars
    /\ UNCHANGED mainVars
    /\ UNCHANGED pruneVars
    /\ UNCHANGED cronVars

\* listS3Objects: one page is requested and the request fails
ListFail ==
    /\ pc = "list"
    /\ Faulted("list")
    /\ log' = Append(log, Event("list", bucketName, continuationToken, -1, <<>>))
    /\ LET caught == ListCatch(objects)
           handled == CatchBucketError(allResults, config, bucketIdx, "list")
       IN IF caught.rethrow
          THEN /\ objects' = caught.objects
               /\ allResults' = handled.allResults
               /\ bucketIdx' = handled.bucketIdx
               /\ pc' = "loop"
          ELSE /\ objects' = caught.objects
               /\ pc' = "write"
               /\ UNCHANGED <<allResults, bucketIdx>>
    /\ UNCHANGED <<config, inventory, store, fault, continuationToken, result, chunkIdx,
                   deletionResults, first>>
    /\ UNCHANGED evalVars
    /\ UNCHANGED callVars
    /\ UNCHANGED mainVars
    /\ UNCHANGED pruneVars
    /\ UNCHANGED cronVars

\* writeFileSync(listFilename, ...) throws
WriteFail ==
    /\ pc = "write"
    /\ Faulted("write")
    /\ log' = Append(log, Event("write", bucketName, 0, -1, <<>>))
    /\ LET handled == CatchBucketError(allResults, config, bucketIdx, "write")
       IN /\ allResults' = handled.allResults
          /\ bucketIdx' = handled.bucketIdx
    /\ pc' = "loop"
    /\ UNCHANGED <<config, inventory, store, fault, continuationToken, objects, result,
                   chunkIdx, deletionResults, first>>
    /\ UNCHANGED evalVars
    /\ UNCHANGED callVars
    /\ UNCHANGED mainVars
    /\ UNCHANGED pruneVars
    /\ UNCHANGED cronVars

\* the listing is written, the objects are tagged and evaluated, and the deletion is
\* entered if there is something to delete and it is authorized
Evaluate ==
    /\ pc = "write"
    /\ ~Faulted("write")
    /\ LET res == EvaluateBucket(objects, bucketName, config)
       IN /\ result' = res
          /\ pc' = IF res.backupsToDelete # <<>> /\ DeletionAuthorized(config)
                   THEN "delete" ELSE "record"
    /\ log' = Append(log, Event("evaluate", bucketName, 0, 0,
                                [i \in 1..Len(objects) |-> objects[i].Key]))
    /\ UNCHANGED <<config, inventory, store, fault, bucketIdx, continuationToken, objects,
                   chunkIdx, deletionResults, allResults, first>>
    /\ UNCHANGED evalVars
    /\ UNCHANGED callVars
    /\ UNCHANGED mainVars
    /\ UNCHANGED pruneVars
    /\ UNCHANGED cronVars

\* deleteS3Objects: one chunk is sent; the store deletes its keys, or the request fails
DeleteChunk ==
    /\ pc = "delete"
    /\ LET chunks == Chunks(KeysToSend(result))
           chunk == chunks[chunkIdx]
           failed == Faulted("delete")
           after == IF failed
                    THEN DeleteFailed(deletionResults, chunk, bucketName, "delete")
                    ELSE DeleteSucceeded(deletionResults, DeleteResponse(chunk), bucketName)
       IN /\ log' = Append(log, Event("delete", bucketName, 0, IF failed THEN -1 ELSE 0, chunk))
          /\ store' = IF failed THEN store
                      ELSE [store EXCEPT ![bucketName] = Without(@, chunk)]
          /\ deletionResults' = after
          /\ chunkIdx' = chunkIdx + 1
          /\ IF chunkIdx < Len(chunks)
             THEN pc' = "delete" /\ result' = result
             ELSE pc' = "record" /\ result' = WithDeletionResult(result, after)
    /\ UNCHANGED <<config, inventory, fault, bucketIdx, continuationToken, objects,
                   allResults, first>>
    /\ UNCHANGED evalVars
    /\ UNCHANGED callVars
    /\ UNCHANGED mainVars
    /\ UNCHANGED pruneVars
    /\ UNCHANGED cronVars

\* allResults.byBucket[bucketName] = result and the totals; on to the next bucket
Record ==
    /\ pc = "record"
    /\ allResults' = RecordResult(allResults, bucketName, result)
    /\ bucketIdx' = bucketIdx + 1
    /\ pc' = "loop"
    /\ UNCHANGED <<config, inventory, store, fault, continuationToken, objects, result,
                   chunkIdx, deletionResults, log, first>>
    /\ UNCHANGED evalVars
    /\ UNCHANGED callVars
    /\ UNCHANGED mainVars
    /\ UNCHANGED pruneVars
    /\ UNCHANGED cronVars

NextRun ==
    \/ LoopNext
    \/ LoopEnd
    \/ ListPage
    \/ ListFail
    \/ WriteFail
    \/ Evaluate
    \/ DeleteChunk
    \/ Record

SpecRun == InitRun /\ [][NextRun]_vars

(***************************************************************************)
(* SpecMixed: one call of processBackups on two buckets whose contents mix *)
(* two objects, full and differential backups and a key outside the naming *)
(* grammar; deletion is asked for.                                         *)
(***************************************************************************)
MixedUniverse ==
    <<Diff("Sales", 20230302), Full("Orders", 20230101), Full("Orders", 20230601),
      <<DirComp("backups", "full"), BadComp("Orders", 2024, "bak")>> >>

InitMixed ==
    /\ EvalUnused
    /\ config \in [buckets : {Buckets}, retention : Policies(MaxRunCapSum),
                   dryRun : BOOLEAN, deleteNonRetained : {TRUE}]
    /\ inventory \in [Range(Buckets) -> KeyLists(MixedUniverse, MaxRunInv)]
    /\ store = inventory
    /\ fault \in Faults(Buckets)
    /\ RunFresh
    /\ first = NoFirst
    /\ CallUnused
    /\ MainUnused
    /\ PruneUnused
    /\ CronUnused

SpecMixed == InitMixed /\ [][NextRun]_vars

(***************************************************************************)
(* SpecPair: processBackups called twice on the same buckets, contents,    *)
(* policy and store behaviour, first as a dry run, then with dryRun false  *)
(* and deleteNonRetained true; each run has the store to itself.           *)
(***************************************************************************)
InitPair ==
    /\ EvalUnused
    /\ config \in [buckets : {Buckets}, retention : Policies(MaxRunCapSum),
                   dryRun : {TRUE}, deleteNonRetained : BOOLEAN]
    /\ inventory \in [Range(Buckets) -> KeyLists(RunUniverse, MaxRunInv)]
    /\ store = inventory
    /\ fault \in Faults(Buckets)
    /\ RunFresh
    /\ first = NoFirst
    /\ CallUnused
    /\ MainUnused
    /\ PruneUnused
    /\ CronUnused

\* the dry run's outcome is put aside and the real run starts on the same contents
SecondRun ==
    /\ pc = "done"
    /\ ~first.set
    /\ first' = [set |-> TRUE, allResults |-> allResults, log |-> log]
    /\ config' = [config EXCEPT !.dryRun = FALSE, !.deleteNonRetained = TRUE]
    /\ store' = inventory
    /\ pc' = "loop"
    /\ bucketIdx' = 1
    /\ continuationToken' = 0
    /\ objects' = <<>>
    /\ result' = NoResult
    /\ chunkIdx' = 1
    /\ deletionResults' = NewDeletionResults
    /\ allResults' = NewAllResults
    /\ log' = <<>>
    /\ UNCHANGED <<inventory, fault>>
    /\ UNCHANGED evalVars
    /\ UNCHANGED callVars
    /\ UNCHANGED mainVars
    /\ UNCHANGED pruneVars
    /\ UNCHANGED cronVars

NextPair ==
    \/ LoopNext
    \/ LoopEnd
    \/ ListPage
    \/ ListFail
    \/ WriteFail
    \/ Evaluate
    \/ DeleteChunk
    \/ Record
    \/ SecondRun

SpecPair == InitPair /\ [][NextPair]_vars

(***************************************************************************)
(* SpecDelete: one call of deleteS3Objects on its own, on keys 1..n of a   *)
(* bucket, against a store that fails some requests whole and refuses some *)
(* keys.                                                                   *)
(***************************************************************************)
\* the numbers of keys passed in: around every multiple of chunkSize
CallSizes ==
    {k * chunkSize + d : k \in 0..MaxFullChunks,
                         d \in {0, 1, chunkSize \div 2, chunkSize - 1}}

StorePlans ==
    [requests : SUBSET (1..(MaxFullChunks + 1)),
     keys : {{}, {1}, {chunkSize}, {chunkSize + 1}}]

InitDelete ==
    /\ EvalUnused
    /\ config = [NoConfig EXCEPT !.buckets = <<"b1">>]
    /\ inventory = <<>>
    /\ store = <<>>
    /\ fault = NoFault
    /\ pc = "delete"
    /\ bucketIdx = 1
    /\ continuationToken = 0
    /\ objects = <<>>
    /\ result = NoResult
    /\ chunkIdx = 1
    /\ deletionResults = NewDeletionResults
    /\ allResults = NewAllResults
    /\ log = <<>>
    /\ first = NoFirst
    /\ callKeys \in {[i \in 1..n |-> i] : n \in CallSizes}
    /\ storePlan \in StorePlans
    /\ MainUnused
    /\ PruneUnused
    /\ CronUnused

\* for (const chunk of chunks): the request is answered; the outcomes are taken per
\* key from response.Deleted and response.Errors
ChunkAnswered ==
    /\ pc = "delete"
    /\ chunkIdx <= Len(Chunks(callKeys))
    /\ chunkIdx \notin storePlan.requests
    /\ deletionResults' = DeleteSucceeded(deletionResults,
                              DeleteResponseWith(Chunks(callKeys)[chunkIdx], storePlan.keys),
                              bucketName)
    /\ log' = Append(log, Event("delete", bucketName, 0, 0, Chunks(callKeys)[chunkIdx]))
    /\ chunkIdx' = chunkIdx + 1
    /\ UNCHANGED <<config, inventory, store, fault, pc, bucketIdx, continuationToken,
                   objects, result, allResults, first>>
    /\ UNCHANGED evalVars
    /\ UNCHANGED callVars
    /\ UNCHANGED mainVars
    /\ UNCHANGED pruneVars
    /\ UNCHANGED cronVars

\* for (const chunk of chunks): the request fails whole and the catch records it
ChunkThrows ==
    /\ pc = "delete"
    /\ chunkIdx <= Len(Chunks(callKeys))
    /\ chunkIdx \in storePlan.requests
    /\ deletionResults' = DeleteFailed(deletionResults, Chunks(callKeys)[chunkIdx],
                                       bucketName, <<"transport", chunkIdx>>)
    /\ log' = Append(log, Event("delete", bucketName, 0, -1, Chunks(callKeys)[chunkIdx]))
    /\ chunkIdx' = chunkIdx + 1
    /\ UNCHANGED <<config, inventory, store, fault, pc, bucketIdx, continuationToken,
                   objects, result, allResults, first>>
    /\ UNCHANGED evalVars
    /\ UNCHANGED callVars
    /\ UNCHANGED mainVars
    /\ UNCHANGED pruneVars
    /\ UNCHANGED cronVars

\* return deletionResults
DeleteReturn ==
    /\ pc = "delete"
    /\ chunkIdx > Len(Chunks(callKeys))
    /\ pc' = "returned"
    /\ UNCHANGED <<config, inventory, store, fault, bucketIdx, continuationToken, objects,
                   result, chunkIdx, deletionResults, allResults, log, first>>
    /\ UNCHANGED evalVars
    /\ UNCHANGED callVars
    /\ UNCHANGED mainVars
    /\ UNCHANGED pruneVars
    /\ UNCHANGED cronVars

NextDelete ==
    \/ ChunkAnswered
    \/ ChunkThrows
    \/ DeleteReturn

SpecDelete == InitDelete /\ [][NextDelete]_vars

(***************************************************************************)
(* SpecMain: main over the configurations of the config files, then the    *)
(* cron callbacks, each a call of processBackups.                          *)
(***************************************************************************)
defaultConfig ==
    [buckets |-> <<>>,
     retention |-> [yearlyBackups |-> 1, monthlyBackups |-> 12, weeklyBackups |-> 4,
                    differentialBackups |-> 7, fullBackups |-> 1],
     dryRun |-> TRUE,
     deleteNonRetained |-> FALSE]

\* { ...defaultConfig, ...config }: a field of config replaces the default whole
MergeDefaults(c) ==
    [f \in DOMAIN defaultConfig |-> IF f \in DOMAIN c THEN c[f] ELSE defaultConfig[f]]

\* the retention objects of the config files: a usual one, one with a negative cap
FileRetentions ==
    {[yearlyBackups |-> 0, monthlyBackups |-> 0, weeklyBackups |-> 0,
      differentialBackups |-> 0, fullBackups |-> full] : full \in {1, -1}}

\* the entries loadConfig may return: with buckets, with none, with the field missing
FileConfigs ==
    [buckets : {<<>>, <<"b1">>}, retention : FileRetentions,
     dryRun : BOOLEAN, deleteNonRetained : {TRUE}]
    \cup [retention : FileRetentions, dryRun : BOOLEAN, deleteNonRetained : {TRUE}]

\* !config.buckets || config.buckets.length === 0
NoBuckets(c) == c.buckets = <<>>

InitMain ==
    /\ EvalUnused
    /\ CallUnused
    /\ configs \in UNION {[1..n -> FileConfigs] : n \in 1..MaxConfigs}
    /\ mainPc = "loop"
    /\ mainIdx = 1
    /\ scheduled = <<>>
    /\ ticks = 0
    /\ config = NoConfig
    /\ inventory \in [{"b1"} -> KeyLists(RunUniverse, MaxRunInv)]
    /\ store = inventory
    /\ fault \in Faults(<<"b1">>)
    /\ pc = "idle"
    /\ bucketIdx = 1
    /\ continuationToken = 0
    /\ objects = <<>>
    /\ result = NoResult
    /\ chunkIdx = 1
    /\ deletionResults = NewDeletionResults
    /\ allResults = NewAllResults
    /\ log = <<>>
    /\ first = NoFirst
    /\ PruneUnused
    /\ CronUnused

\* for (let config of configs): the configuration has buckets and its callback is
\* registered with cron.schedule
MainSchedule ==
    /\ mainPc = "loop"
    /\ mainIdx <= Len(configs)
    /\ ~NoBuckets(MergeDefaults(configs[mainIdx]))
    /\ scheduled' = Append(scheduled, MergeDefaults(configs[mainIdx]))
    /\ mainIdx' = mainIdx + 1
    /\ UNCHANGED <<configs, mainPc, ticks>>
    /\ UNCHANGED runVars
    /\ UNCHANGED evalVars
    /\ UNCHANGED callVars
    /\ UNCHANGED pruneVars
    /\ UNCHANGED cronVars

\* throw new Error('No buckets configured...'): nothing catches it, the process ends
\* and with it the callbacks registered so far
MainThrow ==
    /\ mainPc = "loop"
    /\ mainIdx <= Len(configs)
    /\ NoBuckets(MergeDefaults(configs[mainIdx]))
    /\ mainPc' = "thrown"
    /\ scheduled' = <<>>
    /\ UNCHANGED <<configs, mainIdx, ticks>>
    /\ UNCHANGED runVars
    /\ UNCHANGED evalVars
    /\ UNCHANGED callVars
    /\ UNCHANGED pruneVars
    /\ UNCHANGED cronVars

\* the loop of main is over
MainReturn ==
    /\ mainPc = "loop"
    /\ mainIdx > Len(configs)
    /\ mainPc' = "returned"
    /\ UNCHANGED <<configs, mainIdx, scheduled, ticks>>
    /\ UNCHANGED runVars
    /\ UNCHANGED evalVars
    /\ UNCHANGED callVars
    /\ UNCHANGED pruneVars
    /\ UNCHANGED cronVars

\* a cron callback runs: prune(config) calls processBackups(config)
CronFire ==
    /\ mainPc = "returned"
    /\ ticks < MaxTicks
    /\ pc \in {"idle", "done"}
    /\ \E k \in 1..Len(scheduled) : config' = scheduled[k]
    /\ ticks' = ticks + 1
    /\ pc' = "loop"
    /\ bucketIdx' = 1
    /\ continuationToken' = 0
    /\ objects' = <<>>
    /\ result' = NoResult
    /\ chunkIdx' = 1
    /\ deletionResults' = NewDeletionResults
    /\ allResults' = NewAllResults
    /\ UNCHANGED <<inventory, store, fault, log, first>>
    /\ UNCHANGED <<configs, mainPc, mainIdx, scheduled>>
    /\ UNCHANGED evalVars
    /\ UNCHANGED callVars
    /\ UNCHANGED pruneVars
    /\ UNCHANGED cronVars

NextMain ==
    \/ MainSchedule
    \/ MainThrow
    \/ MainReturn
    \/ CronFire
    \/ LoopNext
    \/ LoopEnd
    \/ ListPage
    \/ ListFail
    \/ WriteFail
    \/ Evaluate
    \/ DeleteChunk
    \/ Record

SpecMain == InitMain /\ [][NextMain]_vars

(***************************************************************************)
(* SpecPrune: one call of prune on two buckets: processBackups, then the   *)
(* loop that builds finalTable from its results.                           *)
(***************************************************************************)
InitPrune ==
    /\ EvalUnused
    /\ config \in [buckets : {Buckets}, retention : Policies(MaxRunCapSum),
                   dryRun : BOOLEAN, deleteNonRetained : BOOLEAN]
    /\ inventory \in [Range(Buckets) -> KeyLists(RunUniverse, MaxRunInv)]
    /\ store = inventory
    /\ fault \in Faults(Buckets)
    /\ RunFresh
    /\ first = NoFirst
    /\ CallUnused
    /\ MainUnused
    /\ prunePc = "await"
    /\ pruneIdx = 1
    /\ finalTable = EmptyBag
    /\ CronUnused

\* for (const bucket in results.byBucket): the buckets in the order their entries were
\* set, which is the order of config.buckets
PruneOrder(all, cfg) == SelectSeq(cfg.buckets, LAMBDA b : b \in DOMAIN all.byBucket)

\* results.byBucket[bucket].summary is defined
HasSummary(entry) == "summary" \in DOMAIN entry

RECURSIVE PruneRows(_, _)
\* for (const db in byObject) summary.retainedBackups.forEach(backup =>
\*     finalTable.push({ bucket, db, key: backup.key }))
PruneRows(bucket, byObject) ==
    IF byObject = <<>> THEN EmptyBag
    ELSE SetToBag({[bucket |-> bucket, db |-> Head(byObject).objectName, key |-> r.key] :
                      r \in Head(byObject).summary.retainedBackups})
         (+) PruneRows(bucket, Tail(byObject))

\* the body of the for-in for a bucket that has a summary
PruneBucket ==
    /\ prunePc = "await"
    /\ pc = "done"
    /\ pruneIdx <= Len(PruneOrder(allResults, config))
    /\ LET bucket == PruneOrder(allResults, config)[pruneIdx]
       IN /\ HasSummary(allResults.byBucket[bucket])
          /\ finalTable' = finalTable (+) PruneRows(bucket, allResults.byBucket[bucket].summary.byObject)
    /\ pruneIdx' = pruneIdx + 1
    /\ UNCHANGED prunePc
    /\ UNCHANGED runVars
    /\ UNCHANGED evalVars
    /\ UNCHANGED callVars
    /\ UNCHANGED mainVars
    /\ UNCHANGED cronVars

\* const { byObject } = results.byBucket[bucket].summary on an entry { error }: the
\* destructuring of undefined throws a TypeError and the promise of prune rejects
PruneThrow ==
    /\ prunePc = "await"
    /\ pc = "done"
    /\ pruneIdx <= Len(PruneOrder(allResults, config))
    /\ ~HasSummary(allResults.byBucket[PruneOrder(allResults, config)[pruneIdx]])
    /\ prunePc' = "rejected"
    /\ UNCHANGED <<pruneIdx, finalTable>>
    /\ UNCHANGED runVars
    /\ UNCHANGED evalVars
    /\ UNCHANGED callVars
    /\ UNCHANGED mainVars
    /\ UNCHANGED cronVars

\* return finalTable
PruneReturn ==
    /\ prunePc = "await"
    /\ pc = "done"
    /\ pruneIdx > Len(PruneOrder(allResults, config))
    /\ prunePc' = "returned"
    /\ UNCHANGED <<pruneIdx, finalTable>>
    /\ UNCHANGED runVars
    /\ UNCHANGED evalVars
    /\ UNCHANGED callVars
    /\ UNCHANGED mainVars
    /\ UNCHANGED cronVars

NextPrune ==
    \/ LoopNext
    \/ LoopEnd
    \/ ListPage
    \/ ListFail
    \/ WriteFail
    \/ Evaluate
    \/ DeleteChunk
    \/ Record
    \/ PruneBucket
    \/ PruneThrow
    \/ PruneReturn

SpecPrune == InitPrune /\ [][NextPrune]_vars

(***************************************************************************)
(* SpecCron: the cron callback of one configuration, run at every tick.    *)
(* The callback calls prune(config) without awaiting it, so each tick      *)
(* starts a call of processBackups with locals of its own, and the calls   *)
(* started so far advance in any order against the one store. runs holds   *)
(* the locals of each call.                                                *)
(***************************************************************************)
\* the locals of processBackups(cfg) on entry
NewRun(cfg) ==
    [config |-> cfg, pc |-> "loop", bucketIdx |-> 1, continuationToken |-> 0,
     objects |-> <<>>, result |-> NoResult, chunkIdx |-> 1,
     deletionResults |-> NewDeletionResults, allResults |-> NewAllResults]

\* the place of a key in the bucket's content as it was at the start
PlaceOf(keys, k) == CHOOSE i \in 1..Len(keys) : keys[i] = k

\* the store's answer to ListObjectsV2 while the content changes: the token names the
\* last key returned (its place in the key order, 0 for none) and the page holds the
\* keys after it that the bucket has now
ListResponseAfter(content, order, token) ==
    LET rest == SelectSeq(content, LAMBDA k : PlaceOf(order, k) > token)
        page == SubSeq(rest, 1, Min(PageSize, Len(rest)))
    IN [Contents |-> Listed(page),
        NextContinuationToken |->
            IF Len(rest) > PageSize THEN PlaceOf(order, page[Len(page)]) ELSE 0]

\* an entry of the history of the calls
CronEvent(r, op, b, keys) == [run |-> r, op |-> op, bucket |-> b, keys |-> keys]

InitCron ==
    /\ EvalUnused
    /\ CallUnused
    /\ PruneUnused
    /\ config \in [buckets : {<<"b1">>}, retention : Policies(MaxRunCapSum),
                   dryRun : {FALSE}, deleteNonRetained : {TRUE}]
    /\ configs = <<config>>
    /\ mainPc = "returned"
    /\ mainIdx = 2
    /\ scheduled = <<config>>
    /\ ticks = 0
    /\ inventory \in [{"b1"} -> KeyLists(RunUniverse, MaxRunInv)]
    /\ store = inventory
    /\ fault = NoFault
    /\ pc = "idle"
    /\ bucketIdx = 1
    /\ continuationToken = 0
    /\ objects = <<>>
    /\ result = NoResult
    /\ chunkIdx = 1
    /\ deletionResults = NewDeletionResults
    /\ allResults = NewAllResults
    /\ log = <<>>
    /\ first = NoFirst
    /\ runs = <<>>

\* what a step of a call leaves alone
CronFrame ==
    /\ UNCHANGED <<config, inventory, fault, pc, bucketIdx, continuationToken, objects,
                   result, chunkIdx, deletionResults, allResults, first>>
    /\ UNCHANGED <<configs, mainPc, mainIdx, scheduled>>
    /\ UNCHANGED evalVars
    /\ UNCHANGED callVars
    /\ UNCHANGED pruneVars

\* a tick: the callback runs, prune(config) enters processBackups, and the callback
\* returns at the first await
CronTick ==
    /\ mainPc = "returned"
    /\ ticks < MaxTicks
    /\ \E k \in 1..Len(scheduled) : runs' = Append(runs, NewRun(scheduled[k]))
    /\ ticks' = ticks + 1
    /\ UNCHANGED <<store, log>>
    /\ CronFrame

\* for (const bucketName of config.buckets): the next bucket's listing begins
CronLoopNext(r) ==
    /\ runs[r].pc = "loop"
    /\ runs[r].bucketIdx <= Len(runs[r].config.buckets)
    /\ runs' = [runs EXCEPT ![r].pc = "list",
                            ![r].continuationToken = 0,
                            ![r].objects = <<>>,
                            ![r].result = NoResult,
                            ![r].chunkIdx = 1,
                            ![r].deletionResults = NewDeletionResults]
    /\ UNCHANGED <<store, log, ticks>>
    /\ CronFrame

\* the loop is over: return allResults
CronLoopEnd(r) ==
    /\ runs[r].pc = "loop"
    /\ runs[r].bucketIdx > Len(runs[r].config.buckets)
    /\ runs' = [runs EXCEPT ![r].pc = "done"]
    /\ UNCHANGED <<store, log, ticks>>
    /\ CronFrame

\* listS3Objects: one page is requested and answered
CronListPage(r) ==
    /\ runs[r].pc = "list"
    /\ LET b == runs[r].config.buckets[runs[r].bucketIdx]
           response == ListResponseAfter(store[b], inventory[b], runs[r].continuationToken)
           after == ListAccumulate(runs[r].objects, response)
       IN /\ runs' = [runs EXCEPT
                         ![r].objects = after.objects,
                         ![r].continuationToken = after.continuationToken,
                         ![r].pc = IF ListContinues(after.continuationToken)
                                   THEN "list" ELSE "write"]
          /\ log' = Append(log, CronEvent(r, "list", b,
                               [i \in 1..Len(response.Contents) |-> response.Contents[i].Key]))
    /\ UNCHANGED <<store, ticks>>
    /\ CronFrame

\* the listing is written, the objects are tagged and evaluated
CronEvaluate(r) ==
    /\ runs[r].pc = "write"
    /\ LET b == runs[r].config.buckets[runs[r].bucketIdx]
           res == EvaluateBucket(runs[r].objects, b, runs[r].config)
       IN /\ runs' = [runs EXCEPT
                         ![r].result = res,
                         ![r].pc = IF res.backupsToDelete # <<>>
                                      /\ DeletionAuthorized(runs[r].config)
                                   THEN "delete" ELSE "record"]
          /\ log' = Append(log, CronEvent(r, "evaluate", b,
                               [i \in 1..Len(runs[r].objects) |-> runs[r].objects[i].Key]))
    /\ UNCHANGED <<store, ticks>>
    /\ CronFrame

\* deleteS3Objects: one chunk is sent and the store deletes its keys
CronDeleteChunk(r) ==
    /\ runs[r].pc = "delete"
    /\ LET b == runs[r].config.buckets[runs[r].bucketIdx]
           chunks == Chunks(KeysToSend(runs[r].result))
           chunk == chunks[runs[r].chunkIdx]
           after == DeleteSucceeded(runs[r].deletionResults, DeleteResponse(chunk), b)
       IN /\ log' = Append(log, CronEvent(r, "delete", b, chunk))
          /\ store' = [store EXCEPT ![b] = Without(@, chunk)]
          /\ runs' = [runs EXCEPT
                         ![r].deletionResults = after,
                         ![r].chunkIdx = @ + 1,
                         ![r].pc = IF runs[r].chunkIdx < Len(chunks) THEN "delete" ELSE "record",
                         ![r].result = IF runs[r].chunkIdx < Len(chunks) THEN @
                                       ELSE WithDeletionResult(@, after)]
    /\ UNCHANGED ticks
    /\ CronFrame

\* allResults.byBucket[bucketName] = result and the totals; on to the next bucket
CronRecord(r) ==
    /\ runs[r].pc = "record"
    /\ runs' = [runs EXCEPT
                   ![r].allResults =
                       RecordResult(@, runs[r].config.buckets[runs[r].bucketIdx], runs[r].result),
                   ![r].bucketIdx = @ + 1,
                   ![r].pc = "loop"]
    /\ UNCHANGED <<store, log, ticks>>
    /\ CronFrame

\* the calls started so far
Calls == 1..Len(runs)

NextCron ==
    \/ CronTick
    \/ \E r \in Calls : CronLoopNext(r)
    \/ \E r \in Calls : CronLoopEnd(r)
    \/ \E r \in Calls : CronListPage(r)
    \/ \E r \in Calls : CronEvaluate(r)
    \/ \E r \in Calls : CronDeleteChunk(r)
    \/ \E r \in Calls : CronRecord(r)

SpecCron == InitCron /\ [][NextCron]_vars

(***************************************************************************)
(* What the claims speak of, read off the inventory rather than off the    *)
(* evaluation's own bookkeeping. ds is the sequence of descriptors of the  *)
(* keys that parse, in inventory order.                                    *)
(***************************************************************************)
KeySet(ds) == {ds[i].key : i \in 1..Len(ds)}

\* two descriptors are parts of one backup group
SameGroup(a, b) == a.objectName = b.objectName /\ a.backupId = b.backupId

\* the parts of the group of d
GroupOf(ds, d) == {e \in Range(ds) : SameGroup(d, e)}

\* the groups, each named by its representative: its first part in inventory order
GroupReps(ds) == {ds[i] : i \in {k \in 1..Len(ds) : \A j \in 1..(k - 1) : ~SameGroup(ds[j], ds[k])}}

ObjectNames(ds) == {ds[i].objectName : i \in 1..Len(ds)}

FullGroups(ds, o) == {g \in GroupReps(ds) : g.objectName = o /\ g.isFullBackup}

DiffGroups(ds, o) == {g \in GroupReps(ds) : g.objectName = o /\ ~g.isFullBackup}

KeysToDelete(backupsToDelete) == {backupsToDelete[i].key : i \in 1..Len(backupsToDelete)}

GroupRetained(ds, g, retained) == \A e \in GroupOf(ds, g) : e.key \in retained

EvalDone == ev.pc = "done"

(***************************************************************************)
(* Claims on applyRetentionPolicy.                                         *)
(***************************************************************************)
\* C1 (atomicity): at every point of an evaluation the parts of one backup group
\* (same backupId within one objectName) are all retained or all not retained, and
\* once the partition is computed no group has one part retained and another part
\* in backupsToDelete.
C1_Atomicity ==
    LET ds == ParseAll(backups)
        S == Range(ds)
        del == KeysToDelete(ev.backupsToDelete)
    IN ev.pc # "start" =>
        \A a \in S : \A b \in S :
            SameGroup(a, b) =>
                /\ (a.key \in ev.retainedBackups) <=> (b.key \in ev.retainedBackups)
                /\ EvalDone => ~(a.key \in ev.retainedBackups /\ b.key \in del)

\* C1 witness: a finished evaluation that retained a group of several parts and put
\* another backup into the delete set.
C1_Witness ==
    LET ds == ParseAll(backups)
    IN /\ EvalDone
       /\ \E a \in Range(ds) :
             Cardinality(GroupOf(ds, a)) >= 2 /\ GroupRetained(ds, a, ev.retainedBackups)
       /\ ev.backupsToDelete # <<>>

\* C2 (most-recent-full): when the evaluation is done, for every object some choice T
\* of min(fullBackups, number of full groups) full groups, none older than a full
\* group outside T, is entirely retained, whatever the other four caps are.
C2_MostRecentFull ==
    EvalDone =>
        LET ds == ParseAll(backups)
        IN \A o \in ObjectNames(ds) :
              LET F == FullGroups(ds, o)
              IN \E T \in SUBSET F :
                    /\ Cardinality(T) = Min(retentionConfig.fullBackups, Cardinality(F))
                    /\ \A t \in T : \A h \in F \ T : t.datetime >= h.datetime
                    /\ \A t \in T : GroupRetained(ds, t, ev.retainedBackups)

\* C2 witness: an object with more full groups than fullBackups >= 1, one of them
\* retained and one not.
C2_Witness ==
    /\ EvalDone
    /\ retentionConfig.fullBackups >= 1
    /\ LET ds == ParseAll(backups)
       IN \E o \in ObjectNames(ds) :
             LET F == FullGroups(ds, o)
             IN /\ Cardinality(F) > retentionConfig.fullBackups
                /\ \E g \in F : ~GroupRetained(ds, g, ev.retainedBackups)
                /\ \E g \in F : GroupRetained(ds, g, ev.retainedBackups)

\* the differential groups of the object being evaluated that are retained
RetainedDiffGroups ==
    {i \in 1..Len(ev.sortedBackupGroups) :
        /\ ~ev.sortedBackupGroups[i][1].isFullBackup
        /\ KeysOf(ev.sortedBackupGroups[i]) \subseteq ev.objectRetained}

\* the groups of the object being evaluated that are not retained
TurnedAway(full) ==
    {i \in 1..Len(ev.sortedBackupGroups) :
        /\ ev.sortedBackupGroups[i][1].isFullBackup = full
        /\ ~(KeysOf(ev.sortedBackupGroups[i]) \subseteq ev.objectRetained)}

\* C3 (cap respect): at every point of the evaluation of every object, the distinct
\* years, months and weeks claimed number at most yearlyBackups, monthlyBackups and
\* weeklyBackups, and at most differentialBackups differential groups are retained.
C3_CapRespect ==
    /\ Cardinality(ev.retainedYears) <= retentionConfig.yearlyBackups
    /\ Cardinality(ev.retainedMonths) <= retentionConfig.monthlyBackups
    /\ Cardinality(ev.retainedWeeks) <= retentionConfig.weeklyBackups
    /\ ev.diffCount <= retentionConfig.differentialBackups
    /\ Cardinality(RetainedDiffGroups) <= retentionConfig.differentialBackups

\* C3 witness: the passes are over for an object of which one year was claimed under
\* yearlyBackups = 1, a second full group having been turned away, and one
\* differential group retained under differentialBackups = 1.
C3_Witness ==
    /\ ev.pc = "summary"
    /\ retentionConfig.yearlyBackups = 1
    /\ retentionConfig.differentialBackups = 1
    /\ Cardinality(ev.retainedYears) = 1
    /\ Cardinality(RetainedDiffGroups) = 1
    /\ TurnedAway(TRUE) # {}

\* C4 (completeness): when the partition is computed, the retained keys together with
\* the keys of backupsToDelete are exactly the keys that parsed, and a key that did
\* not parse is in neither.
C4_Completeness ==
    EvalDone =>
        LET parsed == KeySet(ParseAll(backups))
            unparsed == {backups[i].Key : i \in 1..Len(backups)} \ parsed
            del == KeysToDelete(ev.backupsToDelete)
        IN /\ ev.retainedBackups \cup del = parsed
           /\ \A k \in unparsed : k \notin ev.retainedBackups /\ k \notin del

\* C4 witness: a finished evaluation of an inventory with a key that did not parse,
\* a group of several parts that is not retained and a retained backup.
C4_Witness ==
    LET ds == ParseAll(backups)
    IN /\ EvalDone
       /\ \E i \in 1..Len(backups) : backups[i].Key \notin KeySet(ds)
       /\ \E a \in Range(ds) :
             Cardinality(GroupOf(ds, a)) >= 2 /\ ~GroupRetained(ds, a, ev.retainedBackups)
       /\ ev.retainedBackups # {}

(***************************************************************************)
(* Claims on processBackups.                                               *)
(***************************************************************************)
\* the places of the history that are requests of the kind for the bucket
Entries(op, b) == {i \in 1..Len(log) : log[i].op = op /\ log[i].bucket = b}

DeleteEntries == {i \in 1..Len(log) : log[i].op = "delete"}

RunDone == pc = "done"

IsError(r) == "error" \in DOMAIN r

Recorded(b) == b \in DOMAIN allResults.byBucket

\* C5 (deletion gating): a delete request is in the history only if deleteNonRetained
\* is true and dryRun is false; with dryRun true there is none, whatever
\* deleteNonRetained is.
C5_DeletionGating ==
    /\ DeleteEntries # {} => (config.deleteNonRetained /\ ~config.dryRun)
    /\ config.dryRun => DeleteEntries = {}

\* C5 witness: a finished dry run with deleteNonRetained true that found backups to
\* delete in a bucket and sent no delete request.
C5_Witness ==
    /\ RunDone
    /\ config.dryRun /\ config.deleteNonRetained
    /\ \E b \in DOMAIN allResults.byBucket :
          /\ ~IsError(allResults.byBucket[b])
          /\ allResults.byBucket[b].backupsToDelete # <<>>
    /\ DeleteEntries = {}

\* two per-bucket results are the same error, or the same partition and summary
SameOutcome(x, y) ==
    IF IsError(x) \/ IsError(y)
    THEN IsError(x) /\ IsError(y) /\ x.error = y.error
    ELSE /\ x.retainedBackups = y.retainedBackups
         /\ x.backupsToDelete = y.backupsToDelete
         /\ x.summary = y.summary

\* C6 (dry-run equivalence): when the real run (dryRun false, deleteNonRetained true)
\* that follows a dry run on the same contents and policy is done, both have recorded
\* the same buckets with the same retained set, delete set and summary and the same
\* totals; the dry run sent no delete request.
C6_DryRunEquivalence ==
    (first.set /\ RunDone) =>
        /\ DOMAIN first.allResults.byBucket = DOMAIN allResults.byBucket
        /\ \A b \in DOMAIN allResults.byBucket :
              SameOutcome(first.allResults.byBucket[b], allResults.byBucket[b])
        /\ first.allResults.totalSummary = allResults.totalSummary
        /\ \A i \in 1..Len(first.log) : first.log[i].op # "delete"

\* C6 witness: both runs are done, and the real run sent a delete request for a
\* bucket in which it also retained a backup.
C6_Witness ==
    /\ first.set /\ RunDone
    /\ \E i \in DeleteEntries :
          allResults.byBucket[log[i].bucket].retainedBackups # {}

\* C7 (decision before mutation): a bucket is evaluated at most once, on the keys of
\* its whole content, after every list request made for it; a delete request for it
\* comes after that evaluation, so no list request for it follows a delete request.
C7_DecisionBeforeMutation ==
    \A b \in Range(config.buckets) :
        /\ Cardinality(Entries("evaluate", b)) <= 1
        /\ \A e \in Entries("evaluate", b) :
              /\ log[e].keys = inventory[b]
              /\ \A l \in Entries("list", b) : l < e
        /\ \A d \in Entries("delete", b) :
              /\ \E e \in Entries("evaluate", b) : e < d
              /\ \A l \in Entries("list", b) : l < d

\* C7 witness: a bucket was listed in two requests, evaluated and then sent a delete
\* request.
C7_Witness ==
    \E b \in Range(config.buckets) :
        /\ Cardinality(Entries("list", b)) >= 2
        /\ Entries("delete", b) # {}

\* the number of pages the store holds for a content
Pages(content) == IF content = <<>> THEN 1 ELSE (Len(content) + PageSize - 1) \div PageSize

\* C8 (listing completeness): the first list request of a bucket carries no token,
\* each later one carries the token the page before it returned, and none follows a
\* page without a token; there are never more requests than the store holds pages;
\* while listing a step is always possible; and when listS3Objects returns, it made
\* one request per page and objects is the bucket's content, in order.
C8_ListingComplete ==
    /\ \A b \in Range(config.buckets) :
          /\ \A i \in Entries("list", b) :
                IF \E j \in Entries("list", b) : j < i
                THEN LET prev == CHOOSE j \in Entries("list", b) :
                                    j < i /\ \A k \in Entries("list", b) : k < i => k <= j
                     IN log[prev].next > 0 /\ log[i].token = log[prev].next
                ELSE log[i].token = 0
          /\ Cardinality(Entries("list", b)) <= Pages(inventory[b])
    /\ pc = "list" => ENABLED (ListPage \/ ListFail)
    /\ pc = "write" =>
          /\ objects = Listed(inventory[bucketName])
          /\ Cardinality(Entries("list", bucketName)) = Pages(inventory[bucketName])

\* C8 witness: listS3Objects has returned the two objects of a bucket fetched in two
\* pages.
C8_Witness ==
    /\ pc = "write"
    /\ Cardinality(Entries("list", bucketName)) = 2
    /\ Len(objects) = 2
    /\ objects[1] # objects[2]

\* a list request of the bucket failed
ListFailed(b) == \E i \in Entries("list", b) : log[i].next = -1

\* C9 (listing failure is fatal to the bucket): once a list request of a bucket has
\* failed, that bucket is never evaluated and never sent a delete request, its
\* content is untouched, the pages fetched are dropped, and the bucket's result is the
\* error.
C9_ListFailureFatal ==
    \A b \in Range(config.buckets) :
        ListFailed(b) =>
            /\ Entries("evaluate", b) = {}
            /\ Entries("delete", b) = {}
            /\ store[b] = inventory[b]
            /\ Recorded(b) /\ allResults.byBucket[b] = [error |-> "list"]
            /\ (log[Len(log)].op = "list" /\ log[Len(log)].bucket = b) => objects = <<>>

\* C9 witness: the run is done; the second list request of a bucket failed after a
\* first page had been fetched, and another bucket has a partition.
C9_Witness ==
    /\ RunDone
    /\ \E b \in Range(config.buckets) :
          /\ \E i \in Entries("list", b) : log[i].next = -1 /\ log[i].token > 0
          /\ \E c \in Range(config.buckets) \ {b} :
                Recorded(c) /\ ~IsError(allResults.byBucket[c])

\* the bucket's processing failed: the store failed a list request or the write of
\* the listing file
BucketFailed(b) == \E i \in 1..Len(log) : log[i].bucket = b /\ log[i].next = -1
                                          /\ log[i].op \in {"list", "write"}

\* what the bucket yields on its own
Alone(b) == applyRetentionPolicy(TagBucket(Listed(inventory[b]), b), config.retention)

RECURSIVE SumAlone(_, _)
\* the totals of the buckets of the sequence whose processing did not fail
SumAlone(bs, field) ==
    IF bs = <<>> THEN 0
    ELSE (IF BucketFailed(Head(bs)) THEN 0 ELSE Alone(Head(bs)).summary[field])
         + SumAlone(Tail(bs), field)

\* C10 (bucket independence under failure): when the run is done every configured
\* bucket has a result; a bucket whose processing did not fail was listed and
\* evaluated, has the partition and summary it yields on its own, and was sent delete
\* requests exactly if deletion is authorized and its delete set is not empty; the
\* totals are the sums over the buckets that did not fail.
C10_BucketIndependence ==
    RunDone =>
        /\ \A b \in Range(config.buckets) :
              /\ Recorded(b)
              /\ IsError(allResults.byBucket[b]) <=> BucketFailed(b)
              /\ ~BucketFailed(b) =>
                    /\ Entries("list", b) # {}
                    /\ Entries("evaluate", b) # {}
                    /\ SameOutcome(allResults.byBucket[b], Alone(b))
                    /\ Entries("delete", b) # {}
                          <=> (DeletionAuthorized(config) /\ Alone(b).backupsToDelete # <<>>)
        /\ \A f \in {"totalBackups", "retainedCount", "deleteCount"} :
              allResults.totalSummary[f] = SumAlone(config.buckets, f)

\* C10 witness: the run is done; the first bucket failed, and the second was sent a
\* delete request and retained a backup.
C10_Witness ==
    /\ RunDone
    /\ BucketFailed(config.buckets[1])
    /\ Entries("delete", config.buckets[2]) # {}
    /\ allResults.totalSummary.retainedCount > 0

(***************************************************************************)
(* Claims on deleteS3Objects.                                              *)
(***************************************************************************)
\* ceil(n / chunkSize)
BatchCount(n) == (n + chunkSize - 1) \div chunkSize

Returned11 == pc = "returned"

\* C11 (deletion batching): the i-th delete request carries the keys at places
\* (i-1)*1000+1 .. min(i*1000, n) of the input, so at most 1000 keys, every input key in
\* exactly one request and in input order; there are never more than ceil(n/1000)
\* requests, failed ones included, and exactly that many when deleteS3Objects returns.
C11_DeletionBatching ==
    /\ \A i \in 1..Len(log) :
          /\ log[i].op = "delete"
          /\ log[i].keys = SubSeq(callKeys, (i - 1) * chunkSize + 1,
                                  Min(i * chunkSize, Len(callKeys)))
          /\ Len(log[i].keys) \in 1..chunkSize
    /\ Len(log) <= BatchCount(Len(callKeys))
    /\ Returned11 => Len(log) = BatchCount(Len(callKeys))

\* C11 witness: deleteS3Objects has returned after three requests, the second of
\* which failed, the last one carrying fewer than 1000 keys.
C11_Witness ==
    /\ Returned11
    /\ Len(log) = 3
    /\ log[2].next = -1
    /\ Len(log[1].keys) = chunkSize
    /\ Len(log[3].keys) < chunkSize

\* the request that carries the key at the place
RequestOf(place) == ((place - 1) \div chunkSize) + 1

\* the keys sent so far, in order
SentKeys == SubSeq(callKeys, 1, Min(Len(log) * chunkSize, Len(callKeys)))

\* the keys that must be in failed: those of a request that failed whole, those refused
MustFail(k) == RequestOf(k) \in storePlan.requests \/ k \in storePlan.keys

FailureOf(k) ==
    [key |-> k,
     error |-> IF RequestOf(k) \in storePlan.requests
               THEN <<"transport", RequestOf(k)>> ELSE <<"refused", k>>,
     bucket |-> "b1"]

\* the keys of the entries of failed, in order
FailedKeys == [i \in 1..Len(deletionResults.failed) |-> deletionResults.failed[i].key]

\* C12 (batch failure isolation): after any number of requests, failed holds exactly
\* the keys of the requests that failed whole, each with its request's error, and the
\* keys the store refused, each with the store's message for it; successful holds
\* exactly the other keys sent; a failed request does not stop the call: the next
\* chunk is the one after the last request, failed or not, and the call returns after
\* a request for every chunk.
C12_BatchFailureIsolation ==
    /\ deletionResults.successful = SelectSeq(SentKeys, LAMBDA k : ~MustFail(k))
    /\ FailedKeys = SelectSeq(SentKeys, MustFail)
    /\ \A i \in 1..Len(deletionResults.failed) :
          deletionResults.failed[i] = FailureOf(deletionResults.failed[i].key)
    /\ pc \in {"delete", "returned"}
    /\ chunkIdx = Len(log) + 1
    /\ Returned11 => Len(log) = BatchCount(Len(callKeys))

\* C12 witness: the call has returned; the second of three requests failed whole, the
\* first and third were answered, and the store refused a key of another request.
C12_Witness ==
    /\ Returned11
    /\ Len(log) = 3
    /\ storePlan.requests = {2}
    /\ storePlan.keys = {1}
    /\ Len(deletionResults.failed) = chunkSize + 1
    /\ Len(deletionResults.successful) = Len(callKeys) - chunkSize - 1

(***************************************************************************)
(* Scenarios and tiers of applyRetentionPolicy.                            *)
(***************************************************************************)
\* the keys passed to applyRetentionPolicy
InventoryKeys == {backups[i].Key : i \in 1..Len(backups)}

PolicyOf(full, yearly, monthly, weekly, differential) ==
    [fullBackups |-> full, yearlyBackups |-> yearly, monthlyBackups |-> monthly,
     weeklyBackups |-> weekly, differentialBackups |-> differential]

\* the evaluation is done of exactly the three single-part full backups of Orders
\* dated 2023-01-01, 2023-06-01 and 2024-01-01 under the policy
ThreeFullsDone(policy) ==
    /\ EvalDone
    /\ InventoryKeys = {Full("Orders", 20230101), Full("Orders", 20230601),
                        Full("Orders", 20240101)}
    /\ retentionConfig = policy

\* C13 as claimed (Scenario A): with fullBackups=1, yearlyBackups=1 and the other caps
\* 0, the retained set is exactly the 2024-01-01 backup and the other two are in the
\* delete set.
C13_ScenarioA_AsClaimed ==
    ThreeFullsDone(PolicyOf(1, 1, 0, 0, 0)) =>
        /\ ev.retainedBackups = {Full("Orders", 20240101)}
        /\ KeysToDelete(ev.backupsToDelete)
              = {Full("Orders", 20230101), Full("Orders", 20230601)}

\* C13 amended (Scenario A): with fullBackups=1, yearlyBackups=1 and the other caps 0,
\* the retained set is exactly the 2024-01-01 backup (the newest full) and the
\* 2023-01-01 backup (first of the remaining fulls, it claims the one yearly slot); only
\* the 2023-06-01 backup is in the delete set.
C13_ScenarioA ==
    ThreeFullsDone(PolicyOf(1, 1, 0, 0, 0)) =>
        /\ ev.retainedBackups = {Full("Orders", 20240101), Full("Orders", 20230101)}
        /\ KeysToDelete(ev.backupsToDelete) = {Full("Orders", 20230601)}

\* C13 witness: the evaluation of Scenario A is done; it made one most-recent-full
\* retention and the year 2023 was claimed by the yearly tier.
C13_Witness ==
    /\ ThreeFullsDone(PolicyOf(1, 1, 0, 0, 0))
    /\ ev.fullCount = 1
    /\ ev.retainedYears = {2023}

\* the places of the full groups in the object's groups sorted oldest first
FullPlaces(sorted) == {p \in 1..Len(sorted) : sorted[p][1].isFullBackup}

\* the places of the full groups the most-recent pass retains: the last
\* min(cap, number of full groups) of them
MostRecentPlaces(sorted, cap) ==
    {p \in FullPlaces(sorted) : Cardinality({q \in FullPlaces(sorted) : q > p}) < cap}

RemainingPlaces(sorted, cap) == FullPlaces(sorted) \ MostRecentPlaces(sorted, cap)

\* the places that open a year among the first cap distinct years of the places,
\* oldest first
YearOpeners(sorted, places, cap) ==
    {p \in places :
        /\ \A q \in places : q < p => sorted[q][1].year # sorted[p][1].year
        /\ Cardinality({sorted[q][1].year : q \in {r \in places : r < p}}) < cap}

\* C14 (yearly tier favors the earliest backup): once the second pass over an object
\* is over, its groups are in time order, the years claimed are the first
\* yearlyBackups distinct years, oldest first, among the full groups the most-recent
\* pass left, and for each claimed year the earliest of those groups in that year is
\* retained; the fulls 2023-01-01, 2023-06-01, 2024-01-01 under fullBackups=0,
\* yearlyBackups=2 and all other caps 0 retain exactly 2023-01-01 and 2024-01-01.
C14_YearlyEarliest ==
    /\ ev.pc = "third" =>
          /\ \A p \in 1..Len(ev.sortedBackupGroups) : \A q \in 1..Len(ev.sortedBackupGroups) :
                p < q => ev.sortedBackupGroups[p][1].datetime
                            <= ev.sortedBackupGroups[q][1].datetime
          /\ ev.retainedYears =
                {ev.sortedBackupGroups[p][1].year :
                    p \in YearOpeners(ev.sortedBackupGroups,
                                      RemainingPlaces(ev.sortedBackupGroups,
                                                      retentionConfig.fullBackups),
                                      retentionConfig.yearlyBackups)}
          /\ \A p \in YearOpeners(ev.sortedBackupGroups,
                                  RemainingPlaces(ev.sortedBackupGroups,
                                                  retentionConfig.fullBackups),
                                  retentionConfig.yearlyBackups) :
                KeysOf(ev.sortedBackupGroups[p]) \subseteq ev.objectRetained
    /\ ThreeFullsDone(PolicyOf(0, 2, 0, 0, 0)) =>
          /\ ev.retainedBackups = {Full("Orders", 20230101), Full("Orders", 20240101)}
          /\ KeysToDelete(ev.backupsToDelete) = {Full("Orders", 20230601)}

\* C14 witness: Scenario B is done: both years were claimed, and 2023 by the earlier of
\* its two fulls.
C14_Witness ==
    /\ ThreeFullsDone(PolicyOf(0, 2, 0, 0, 0))
    /\ ev.retainedYears = {2023, 2024}
    /\ Full("Orders", 20230101) \in ev.retainedBackups
    /\ Full("Orders", 20230601) \notin ev.retainedBackups

\* the places of the differential groups in the object's groups sorted oldest first
DiffPlaces(sorted) == {p \in 1..Len(sorted) : ~sorted[p][1].isFullBackup}

\* the places of the groups of the object being evaluated that are retained
RetainedPlaces ==
    {p \in 1..Len(ev.sortedBackupGroups) :
        KeysOf(ev.sortedBackupGroups[p]) \subseteq ev.objectRetained}

\* C15 (differential window): once the passes over an object are over, exactly
\* min(differentialBackups, number of differential groups) of its differential groups
\* are retained, none of them older than a differential group that is not, and no part
\* of the others is retained, however many full groups the object has; if it has no
\* full group, nothing else of it is retained.
C15_DifferentialWindow ==
    ev.pc = "summary" =>
        /\ Cardinality(DiffPlaces(ev.sortedBackupGroups) \cap RetainedPlaces)
              = Min(retentionConfig.differentialBackups,
                    Cardinality(DiffPlaces(ev.sortedBackupGroups)))
        /\ \A p \in DiffPlaces(ev.sortedBackupGroups) :
              \/ p \in RetainedPlaces
              \/ /\ KeysOf(ev.sortedBackupGroups[p]) \cap ev.objectRetained = {}
                 /\ \A q \in DiffPlaces(ev.sortedBackupGroups) \cap RetainedPlaces :
                       ev.sortedBackupGroups[q][1].datetime
                          >= ev.sortedBackupGroups[p][1].datetime
        /\ FullPlaces(ev.sortedBackupGroups) = {} =>
              ev.objectRetained
                 = UNION {KeysOf(ev.sortedBackupGroups[p]) :
                             p \in DiffPlaces(ev.sortedBackupGroups) \cap RetainedPlaces}

\* C15 witness: the passes are over for an object with two differential groups and
\* two full groups under differentialBackups = 1: of the differential groups the
\* newer is retained and the older is not.
C15_Witness ==
    /\ ev.pc = "summary"
    /\ retentionConfig.differentialBackups = 1
    /\ Cardinality(FullPlaces(ev.sortedBackupGroups)) = 2
    /\ Cardinality(DiffPlaces(ev.sortedBackupGroups)) = 2
    /\ \E p \in DiffPlaces(ev.sortedBackupGroups) :
          \E q \in DiffPlaces(ev.sortedBackupGroups) :
             /\ p < q
             /\ ev.sortedBackupGroups[p][1].datetime < ev.sortedBackupGroups[q][1].datetime
             /\ DiffPlaces(ev.sortedBackupGroups) \cap RetainedPlaces = {q}

\* C16 (idempotence of evaluation): when a second call of applyRetentionPolicy on the
\* same objects and policy returns, its retained set, delete set and summary are those
\* the first call returned, whatever the first call left behind.
C16_Idempotence ==
    (first.set /\ EvalDone) =>
        /\ Returned(ev).retainedBackups = first.allResults.retainedBackups
        /\ Returned(ev).backupsToDelete = first.allResults.backupsToDelete
        /\ Returned(ev).summary = first.allResults.summary

\* C16 witness: the second call has returned, having retained a backup and put
\* another into the delete set.
C16_Witness ==
    /\ first.set /\ EvalDone
    /\ ev.retainedBackups # {}
    /\ ev.backupsToDelete # <<>>

\* the key's file name does not match the naming grammar
Ungrammatical(key) == ~Match(Filename(key)).matched

\* what applyRetentionPolicy returns for the objects whose keys match the grammar
WithoutUngrammatical(objs, policy) ==
    applyRetentionPolicy(SelectSeq(objs, LAMBDA o : ~Ungrammatical(o.Key)), policy)

\* C17 (parse failure is local): a key that does not match the naming grammar has no
\* descriptor at any point of the evaluation, and the evaluation ends with the retained
\* set, delete set and summary it yields for the same objects without those keys.
C17_ParseFailureLocal ==
    /\ \A i \in 1..Len(backups) :
          Ungrammatical(backups[i].Key) =>
              \A j \in 1..Len(ev.backupObjects) : ev.backupObjects[j].key # backups[i].Key
    /\ EvalDone => Returned(ev) = WithoutUngrammatical(backups, retentionConfig)

\* C17 witness: an evaluation is done of objects the first of which has a key outside
\* the grammar; a later one was retained and another put into the delete set.
C17_Witness ==
    /\ EvalDone
    /\ Len(backups) >= 3
    /\ Ungrammatical(backups[1].Key)
    /\ ev.retainedBackups # {}
    /\ ev.backupsToDelete # <<>>

(***************************************************************************)
(* Claims on the BackupObject constructor.                                 *)
(***************************************************************************)
\* the objects have been parsed
Parsed == ev.pc # "start"

\* the last path component of the key
LastComponent(key) == key[Len(key)]

\* the date, time and part of the descriptor are those of the match
FromMatch(d, matches) ==
    /\ d.objectName = matches.m1
    /\ d.date = matches.m2
    /\ d.time = matches.m3
    /\ d.part = (IF matches.m5 = -1 THEN 1 ELSE matches.m5)

LeapYear(y) == (y % 4 = 0 /\ y % 100 # 0) \/ y % 400 = 0

DaysInMonth(y, m) ==
    IF m = 2 THEN (IF LeapYear(y) THEN 29 ELSE 28)
    ELSE IF m \in {4, 6, 9, 11} THEN 30 ELSE 31

\* the 8 date digits and the 6 time digits denote a calendar date and a time of day
ValidCalendar(ymd, hms) ==
    /\ ((ymd \div 100) % 100) \in 1..12
    /\ (ymd % 100) \in 1..DaysInMonth(ymd \div 10000, (ymd \div 100) % 100)
    /\ (hms \div 10000) \in 0..23
    /\ ((hms \div 100) % 100) \in 0..59
    /\ (hms % 100) \in 0..59

\* C18 (filename selection): the descriptor of a key, if it has one, is made from the
\* match of the grammar against the key's last path component (the whole key if it
\* has no separator), and a key whose last path component matches the grammar with
\* a valid date and time and whose first has a type has a descriptor.
C18_FilenameIsLast ==
    Parsed =>
        \A i \in 1..Len(backups) :
            /\ \A j \in 1..Len(ev.backupObjects) :
                  ev.backupObjects[j].key = backups[i].Key =>
                      /\ Match(LastComponent(backups[i].Key)).matched
                      /\ FromMatch(ev.backupObjects[j], Match(LastComponent(backups[i].Key)))
            /\ (/\ Match(LastComponent(backups[i].Key)).matched
                /\ ValidCalendar(Match(LastComponent(backups[i].Key)).m2,
                                 Match(LastComponent(backups[i].Key)).m3)
                /\ Len(backups[i].Key[1]) >= 2) =>
                  \E j \in 1..Len(ev.backupObjects) : ev.backupObjects[j].key = backups[i].Key

\* C19 (invalid timestamp rejection): no descriptor is made of a key whose date and
\* time digits do not denote a valid calendar date and time.
C19_InvalidTimestampRejected ==
    Parsed =>
        \A j \in 1..Len(ev.backupObjects) :
            ValidCalendar(ev.backupObjects[j].date, ev.backupObjects[j].time)

(***************************************************************************)
(* Claims on main.                                                         *)
(***************************************************************************)
\* a cap of the retention policy is not a non-negative integer
InvalidPolicy(retention) ==
    \E f \in DOMAIN retention : retention[f] \notin Nat

\* the configuration, as main completes it, has no buckets or an invalid cap
InvalidConfig(c) ==
    NoBuckets(MergeDefaults(c)) \/ InvalidPolicy(MergeDefaults(c).retention)

\* C20 (configuration errors are fatal at startup): if any configuration has no
\* buckets or an invalid retention cap, the program has failed before any list or
\* delete request: none is ever sent to the store, for any configuration.
C20_ConfigErrorsFatal ==
    (\E i \in 1..Len(configs) : InvalidConfig(configs[i])) =>
        \A i \in 1..Len(log) : log[i].op \notin {"list", "delete"}

(***************************************************************************)
(* Claims on the summary.                                                  *)
(***************************************************************************)
\* the descriptors of one object
OfObject(ds, o) == {d \in Range(ds) : d.objectName = o}

\* C21 (summary counts match the partition): when the partition is computed, every
\* object has a summary whose retainedCount is the number of the object's keys in
\* the retained set and whose deleteCount is the number of its keys in
\* backupsToDelete; the two add up to the number of the object's descriptors.
C21_SummaryCounts ==
    EvalDone =>
        LET ds == ParseAll(backups)
            del == KeysToDelete(ev.backupsToDelete)
            byObject == ev.retentionSummary.byObject
        IN /\ {byObject[i].objectName : i \in 1..Len(byObject)} = ObjectNames(ds)
           /\ \A i \in 1..Len(byObject) :
                 LET mine == OfObject(ds, byObject[i].objectName)
                     s == byObject[i].summary
                 IN /\ s.retainedCount = Cardinality({d \in mine : d.key \in ev.retainedBackups})
                    /\ s.deleteCount = Cardinality({d \in mine : d.key \in del})
                    /\ s.retainedCount + s.deleteCount = Cardinality(mine)

\* C21 witness: a finished evaluation of two objects, one with a retained key and a
\* key to delete, the other with a retained key.
C21_Witness ==
    /\ EvalDone
    /\ LET byObject == ev.retentionSummary.byObject
       IN /\ Len(byObject) = 2
          /\ \E i \in 1..2 : byObject[i].summary.retainedCount >= 1
                             /\ byObject[i].summary.deleteCount >= 1
          /\ \A i \in 1..2 : byObject[i].summary.retainedCount >= 1

SummaryFields == {"totalBackups", "retainedCount", "deleteCount"}

RECURSIVE SumByObject(_, _)
\* the sum of a field over the per-object summaries
SumByObject(byObject, field) ==
    IF byObject = <<>> THEN 0
    ELSE Head(byObject).summary[field] + SumByObject(Tail(byObject), field)

RECURSIVE SumRecorded(_, _)
\* the sum of a field over the results recorded without error for the buckets
SumRecorded(bs, field) ==
    IF bs = <<>> THEN 0
    ELSE (IF Recorded(Head(bs)) /\ ~IsError(allResults.byBucket[Head(bs)])
          THEN allResults.byBucket[Head(bs)].summary[field] ELSE 0)
         + SumRecorded(Tail(bs), field)

\* C22 (additive aggregation): at every point of a run, the summary of every bucket
\* recorded without error carries, for totalBackups, retainedCount and deleteCount,
\* the sum of its per-object values, and the global totals are the sums of these
\* bucket summaries; a bucket recorded with an error adds nothing.
C22_AdditiveAggregation ==
    \A f \in SummaryFields :
        /\ \A b \in DOMAIN allResults.byBucket :
              ~IsError(allResults.byBucket[b]) =>
                  allResults.byBucket[b].summary[f]
                      = SumByObject(allResults.byBucket[b].summary.byObject, f)
        /\ allResults.totalSummary[f] = SumRecorded(config.buckets, f)

\* C22 witness: the run is done; both buckets were recorded without error, the first
\* with two objects of which one is retained and one is to delete.
C22_Witness ==
    /\ RunDone
    /\ \A b \in Range(config.buckets) : Recorded(b) /\ ~IsError(allResults.byBucket[b])
    /\ LET s == allResults.byBucket[config.buckets[1]].summary
       IN Len(s.byObject) = 2 /\ s.retainedCount = 1 /\ s.deleteCount = 1
    /\ allResults.byBucket[config.buckets[2]].summary.totalBackups >= 1

(***************************************************************************)
(* Claims on the passes, step by step.                                     *)
(***************************************************************************)
\* the group a step of the pass at ev.pc handles
CurrentGroup ==
    IF ev.pc = "second" THEN ev.sortedBackupGroups[ev.i] ELSE ev.reversedGroups[ev.i]

InPass == ev.pc \in {"first", "second", "third"}

\* some part of the group is retained already
AlreadyRetained(group) == KeysOf(group) \cap ev.objectRetained # {}

\* the slots claimed and their counters
Claims(e) ==
    <<e.retainedYears, e.retainedMonths, e.retainedWeeks, e.objectSummary.yearlyBackups,
      e.objectSummary.monthlyBackups, e.objectSummary.weeklyBackups>>

\* C23 (retained groups are final): no step after the parsing takes a key out of the
\* retained set, and within an object none out of the object's retained set; a step
\* of the second or third pass on a full group that is already retained leaves the
\* years, months and weeks claimed and their counters as they are.
C23_RetainedFinal ==
    [][/\ ev.pc # "start" => ev.retainedBackups \subseteq ev'.retainedBackups
       /\ InPass => ev.objectRetained \subseteq ev'.objectRetained
       /\ (/\ ev.pc \in {"second", "third"}
           /\ CurrentGroup[1].isFullBackup
           /\ AlreadyRetained(CurrentGroup)) => Claims(ev') = Claims(ev)]_vars

\* C23 witness: the third pass is at a full group that the second pass retained for
\* its year, with a weekly slot free that it would otherwise take.
C23_Witness ==
    /\ ev.pc = "third"
    /\ CurrentGroup[1].isFullBackup
    /\ AlreadyRetained(CurrentGroup)
    /\ ev.fullCount = 0
    /\ CurrentGroup[1].year \in ev.retainedYears
    /\ ev.retainedWeeks = {}
    /\ retentionConfig.weeklyBackups >= 1

\* the second pass is at a full group, not yet retained, whose year and month are
\* both unclaimed with both caps not reached
BothTiersOpen ==
    /\ ev.pc = "second"
    /\ CurrentGroup[1].isFullBackup
    /\ ~AlreadyRetained(CurrentGroup)
    /\ CurrentGroup[1].year \notin ev.retainedYears
    /\ Cardinality(ev.retainedYears) < retentionConfig.yearlyBackups
    /\ getMonthKey(CurrentGroup[1]) \notin ev.retainedMonths
    /\ Cardinality(ev.retainedMonths) < retentionConfig.monthlyBackups

\* C24 (double accounting): the counters yearlyBackups, monthlyBackups and
\* weeklyBackups of the object summary always equal the numbers of years, months and
\* weeks claimed; and a step of the second pass on a group that finds both its year
\* and its month open adds the group's keys to the retained set, each once, and adds
\* one to both yearlyBackups and monthlyBackups.
C24_DoubleAccounting ==
    /\ [](/\ ev.objectSummary.yearlyBackups = Cardinality(ev.retainedYears)
          /\ ev.objectSummary.monthlyBackups = Cardinality(ev.retainedMonths)
          /\ ev.objectSummary.weeklyBackups = Cardinality(ev.retainedWeeks))
    /\ [][BothTiersOpen =>
            /\ ev'.objectRetained = ev.objectRetained \cup KeysOf(CurrentGroup)
            /\ Cardinality(ev'.objectRetained)
                  = Cardinality(ev.objectRetained) + Len(CurrentGroup)
            /\ ev'.objectSummary.yearlyBackups = ev.objectSummary.yearlyBackups + 1
            /\ ev'.objectSummary.monthlyBackups = ev.objectSummary.monthlyBackups + 1]_vars

\* C24 witness: the object is summarized with one key retained, which the second pass
\* kept, and both the yearly and the monthly counter at one.
C24_Witness ==
    /\ ev.pc \in {"object", "delete"}
    /\ ev.fullCount = 0
    /\ ev.objectSummary.retainedCount = 1
    /\ ev.objectSummary.yearlyBackups = 1
    /\ ev.objectSummary.monthlyBackups = 1
    /\ ev.objectSummary.weeklyBackups = 0
    /\ ev.objectSummary.differentialBackups = 0

(***************************************************************************)
(* Claims on two calls of applyRetentionPolicy.                            *)
(***************************************************************************)
\* C25 (part order irrelevance): when the parts of one backup group are delivered in
\* another order, the evaluation gives the same retained set and the same delete set.
C25_PartOrderIrrelevant ==
    (first.set /\ EvalDone) =>
        /\ ev.retainedBackups = first.allResults.retainedBackups
        /\ KeysToDelete(ev.backupsToDelete) = KeysToDelete(first.allResults.backupsToDelete)

(***************************************************************************)
(* Claims on the weekly tier.                                              *)
(***************************************************************************)
\* the day number of a descriptor's date
DayOf(d) == d.datetime \div 86400

\* two dates of one year at least seven days apart: in different weeks of the year,
\* whatever day the week starts on
DifferentWeeksOfOneYear(a, b) ==
    /\ a.year = b.year
    /\ (DayOf(a) - DayOf(b) >= 7 \/ DayOf(b) - DayOf(a) >= 7)

\* only the weekly tier retains: weeklyBackups >= 2 and the other four caps are 0
WeeklyOnly(policy) ==
    /\ policy.weeklyBackups >= 2
    /\ policy.fullBackups = 0
    /\ policy.yearlyBackups = 0
    /\ policy.monthlyBackups = 0
    /\ policy.differentialBackups = 0

\* C26 (the weekly tier works per week): two full groups of one object in different
\* weeks of the same year have different week keys, and under a policy with
\* weeklyBackups >= 2 and nothing else, an object's two full groups from two
\* different weeks of one year are both retained.
C26_WeeklyPerWeek ==
    EvalDone =>
        LET ds == ParseAll(backups)
        IN \A o \in ObjectNames(ds) :
              \A a \in FullGroups(ds, o) : \A b \in FullGroups(ds, o) :
                  DifferentWeeksOfOneYear(a, b) =>
                      /\ getWeekKey(a) # getWeekKey(b)
                      /\ (WeeklyOnly(retentionConfig) /\ FullGroups(ds, o) = {a, b}) =>
                            /\ GroupRetained(ds, a, ev.retainedBackups)
                            /\ GroupRetained(ds, b, ev.retainedBackups)

(***************************************************************************)
(* Claims on what a run deletes.                                           *)
(***************************************************************************)
\* the result of the run's evaluation of the bucket: the recorded one, or the one in
\* hand while the bucket is being processed
DecisionOf(b) == IF Recorded(b) THEN allResults.byBucket[b] ELSE result

\* the keys of the bucket's content that the constructor throws on
UnparsedKeys(b) ==
    Range(inventory[b]) \ KeySet(ParseAll(TagBucket(Listed(inventory[b]), b)))

\* C27 (only decided keys are deleted): every key of every delete request of a bucket
\* is a key of the backupsToDelete of that bucket's evaluation in this run and a key
\* of that bucket's content; it is not in the evaluation's retained set and is not
\* a key that failed to parse.
C27_OnlyDecidedKeysDeleted ==
    \A i \in DeleteEntries :
        LET b == log[i].bucket
            sent == Range(log[i].keys)
        IN /\ sent \subseteq KeysToDelete(DecisionOf(b).backupsToDelete)
           /\ sent \subseteq Range(inventory[b])
           /\ sent \cap DecisionOf(b).retainedBackups = {}
           /\ sent \cap UnparsedKeys(b) = {}

\* C27 witness: the run is done and both buckets were sent a delete request; the
\* first bucket has a retained key, the second a key that failed to parse, and the
\* two buckets have no key in common.
C27_Witness ==
    /\ RunDone
    /\ \A b \in Range(config.buckets) : Entries("delete", b) # {}
    /\ DecisionOf(config.buckets[1]).retainedBackups # {}
    /\ UnparsedKeys(config.buckets[2]) # {}
    /\ Range(inventory[config.buckets[1]]) \cap Range(inventory[config.buckets[2]]) = {}

\* C28 (pruning is a fixed point): applied to exactly the objects it retained, or to
\* what is left of the inventory once its delete set is deleted, applyRetentionPolicy
\* retains the same keys again and has nothing to delete.
C28_FixedPoint ==
    (first.set /\ EvalDone) =>
        /\ ev.retainedBackups = first.allResults.retainedBackups
        /\ ev.backupsToDelete = <<>>

\* C28 witness: the second evaluation is done, on fewer objects than the first, which
\* had retained two groups of one object and one of another and deleted one.
C28_Witness ==
    /\ first.set
    /\ EvalDone
    /\ first.allResults.backupsToDelete # <<>>
    /\ Len(first.allResults.summary.byObject) = 2
    /\ \E i \in 1..2 : first.allResults.summary.byObject[i].summary.retainedCount >= 2
    /\ ev.retainedBackups # {}

(***************************************************************************)
(* Claims on prune.                                                        *)
(***************************************************************************)
\* one row per retained key of the bucket's recorded result
RowsOfBucket(b) ==
    SetToBag({[bucket |-> b, db |-> FindByKey(ParseAll(TagBucket(Listed(inventory[b]), b)), k).objectName,
               key |-> k] : k \in allResults.byBucket[b].retainedBackups})

RECURSIVE RowsOfBuckets(_)
\* the rows of the buckets of the sequence that were processed without error
RowsOfBuckets(bs) ==
    IF bs = <<>> THEN EmptyBag
    ELSE (IF IsError(allResults.byBucket[Head(bs)]) THEN EmptyBag ELSE RowsOfBucket(Head(bs)))
         (+) RowsOfBuckets(Tail(bs))

\* C29 (a failed bucket does not fail the prune run): prune never ends by raising, and
\* when it has returned, finalTable holds exactly one row per retained key of every
\* bucket that was processed without error, whether or not another bucket failed.
C29_FailedBucketDoesNotFailPrune ==
    /\ prunePc # "rejected"
    /\ prunePc = "returned" => finalTable = RowsOfBuckets(config.buckets)

(***************************************************************************)
(* Claims on the scheduler.                                                *)
(***************************************************************************)
\* the call has started and not returned
Active(r) == runs[r].pc # "done"

\* C30 (no overlapping runs): no two runs of the configuration are under way at the
\* same time, and no key is sent for deletion by two runs.
C30_NoOverlappingRuns ==
    /\ \A r1 \in 1..Len(runs) : \A r2 \in 1..Len(runs) :
          r1 # r2 => ~(Active(r1) /\ Active(r2))
    /\ \A i \in 1..Len(log) : \A j \in 1..Len(log) :
          (log[i].op = "delete" /\ log[j].op = "delete" /\ log[i].run # log[j].run) =>
              Range(log[i].keys) \cap Range(log[j].keys) = {}

====
